---- MODULE Spec2Model ----
(***************************************************************************)
(* A model of the z80_undead emulator core: the instruction tables and     *)
(* the prefix decoder (cpu/tables.rs, cpu/decoder.rs), the event queue     *)
(* (event/mod.rs), the flat memory (memory/mod.rs) and the fetch/decode/   *)
(* execute loop of Cpu::step (cpu/mod.rs).                                 *)
(***************************************************************************)
EXTENDS Integers, Sequences, FiniteSets, TLC

(***************************************************************************)
(* Machine arithmetic.                                                     *)
(***************************************************************************)
U8  == 256
U16 == 65536

Byte == 0 .. 255

RECURSIVE BitOr(_, _)
BitOr(x, y) ==
  IF x = 0 THEN y
  ELSE IF y = 0 THEN x
  ELSE (IF x % 2 = 1 \/ y % 2 = 1 THEN 1 ELSE 0) + 2 * BitOr(x \div 2, y \div 2)

RECURSIVE BitAnd(_, _)
BitAnd(x, y) ==
  IF x = 0 \/ y = 0 THEN 0
  ELSE (IF x % 2 = 1 /\ y % 2 = 1 THEN 1 ELSE 0) + 2 * BitAnd(x \div 2, y \div 2)

RECURSIVE BitXor(_, _)
BitXor(x, y) ==
  IF x = 0 THEN y
  ELSE IF y = 0 THEN x
  ELSE (IF (x % 2) # (y % 2) THEN 1 ELSE 0) + 2 * BitXor(x \div 2, y \div 2)

\* u8::count_ones
RECURSIVE count_ones(_)
count_ones(x) == IF x = 0 THEN 0 ELSE (x % 2) + count_ones(x \div 2)

\* u8 << n
Shl8(x, n) == (x * (2 ^ n)) % U8

\* Option<T>: None is the empty sequence, Some(x) the one-element sequence.
None == << >>
Some(x) == << x >>

(***************************************************************************)
(* Instruction descriptors and the four tables (cpu/tables.rs).            *)
(***************************************************************************)
\* Instruction::new(mnemonic, length, t_states, instruction_type, execute)
\* as the tables call it; every table entry is bound to the NOP executor.
Instruction(mnemonic, length, t_states, instruction_type) ==
  [ mnemonic |-> mnemonic, length |-> length, t_states |-> t_states,
    instruction_type |-> instruction_type, execute |-> "nop" ]

create_nop == Instruction("NOP", 1, 4, "Control")

PREFIX_INSTRUCTION == Instruction("PREFIX", 1, 4, "Special")

BIT_MNEMONICS ==
  <<
    <<"BIT 0, B", "BIT 0, C", "BIT 0, D", "BIT 0, E", "BIT 0, H", "BIT 0, L", "BIT 0, (HL)", "BIT 0, A">>,
    <<"BIT 1, B", "BIT 1, C", "BIT 1, D", "BIT 1, E", "BIT 1, H", "BIT 1, L", "BIT 1, (HL)", "BIT 1, A">>,
    <<"BIT 2, B", "BIT 2, C", "BIT 2, D", "BIT 2, E", "BIT 2, H", "BIT 2, L", "BIT 2, (HL)", "BIT 2, A">>,
    <<"BIT 3, B", "BIT 3, C", "BIT 3, D", "BIT 3, E", "BIT 3, H", "BIT 3, L", "BIT 3, (HL)", "BIT 3, A">>,
    <<"BIT 4, B", "BIT 4, C", "BIT 4, D", "BIT 4, E", "BIT 4, H", "BIT 4, L", "BIT 4, (HL)", "BIT 4, A">>,
    <<"BIT 5, B", "BIT 5, C", "BIT 5, D", "BIT 5, E", "BIT 5, H", "BIT 5, L", "BIT 5, (HL)", "BIT 5, A">>,
    <<"BIT 6, B", "BIT 6, C", "BIT 6, D", "BIT 6, E", "BIT 6, H", "BIT 6, L", "BIT 6, (HL)", "BIT 6, A">>,
    <<"BIT 7, B", "BIT 7, C", "BIT 7, D", "BIT 7, E", "BIT 7, H", "BIT 7, L", "BIT 7, (HL)", "BIT 7, A">> >>

IX_LOAD_MNEMONICS ==
  <<"LD B, (IX+d)", "LD C, (IX+d)", "LD D, (IX+d)", "LD E, (IX+d)", "LD H, (IX+d)", "LD L, (IX+d)", "LD (IX+d), r", "LD A, (IX+d)">>

IY_LOAD_MNEMONICS ==
  <<"LD B, (IY+d)", "LD C, (IY+d)", "LD D, (IY+d)", "LD E, (IY+d)", "LD H, (IY+d)", "LD L, (IY+d)", "LD (IY+d), r", "LD A, (IY+d)">>

IX_ARITHMETIC_MNEMONICS ==
  <<
    <<"ADD IX, BC", "ADD IX, DE", "ADD IX, IX", "ADD IX, SP">>,
    <<"ADC IX, BC", "ADC IX, DE", "ADC IX, IX", "ADC IX, SP">>,
    <<"SUB IX, BC", "SUB IX, DE", "SUB IX, IX", "SUB IX, SP">>,
    <<"SBC IX, BC", "SBC IX, DE", "SBC IX, IX", "SBC IX, SP">> >>

IY_ARITHMETIC_MNEMONICS ==
  <<
    <<"ADD IY, BC", "ADD IY, DE", "ADD IY, IY", "ADD IY, SP">>,
    <<"ADC IY, BC", "ADC IY, DE", "ADC IY, IY", "ADC IY, SP">>,
    <<"SUB IY, BC", "SUB IY, DE", "SUB IY, IY", "SUB IY, SP">>,
    <<"SBC IY, BC", "SBC IY, DE", "SBC IY, IY", "SBC IY, SP">> >>

RLC_MNEMONICS ==
  <<"RLC B", "RLC C", "RLC D", "RLC E", "RLC H", "RLC L", "RLC (HL)", "RLC A">>

RRC_MNEMONICS ==
  <<"RRC B", "RRC C", "RRC D", "RRC E", "RRC H", "RRC L", "RRC (HL)", "RRC A">>

\* Option<&Instruction> of HashMap::get.
MapGet(map, key) == IF key \in DOMAIN map THEN Some(map[key]) ELSE None

\* The HashMap<u8, Instruction> left by a run of inserts, each a pair
\* <<opcode, instruction>>, made in program order: a later insert under a key
\* replaces the earlier one.
InsertAll(inserts) ==
  [key \in {inserts[i][1] : i \in 1 .. Len(inserts)} |->
     LET lastInsert == CHOOSE i \in 1 .. Len(inserts) :
                         /\ inserts[i][1] = key
                         /\ \A j \in (i + 1) .. Len(inserts) : inserts[j][1] # key
     IN  inserts[lastInsert][2]]

RECURSIVE Flatten(_)
Flatten(seqs) == IF seqs = << >> THEN << >> ELSE Head(seqs) \o Flatten(Tail(seqs))

init_main_table == << <<0, Instruction("NOP", 1, 4, "Control")>> >>

CbRlcInserts ==
  [n \in 1 .. 8 |->
     LET i == n - 1
     IN  <<i, Instruction(RLC_MNEMONICS[i + 1], 2, IF i = 6 THEN 15 ELSE 8, "Rotate")>>]

CbRrcInserts ==
  [n \in 1 .. 8 |->
     LET i == 8 + (n - 1)
     IN  <<i, Instruction(RRC_MNEMONICS[BitAnd(i, 7) + 1], 2,
                          IF BitAnd(i, 7) = 6 THEN 15 ELSE 8, "Rotate")>>]

CbBitInserts ==
  [n \in 1 .. 64 |->
     LET bit == (n - 1) \div 8
         reg == (n - 1) % 8
         opcode == BitOr(BitOr(64, Shl8(bit, 3)), reg)
     IN  <<opcode, Instruction(BIT_MNEMONICS[bit + 1][reg + 1], 2,
                               IF reg = 6 THEN 12 ELSE 8, "BitManip")>>]

init_cb_table == CbRlcInserts \o CbRrcInserts \o CbBitInserts

DdfdLoadInserts ==
  Flatten([n \in 1 .. 8 |->
     LET reg == n - 1
         opcode == BitOr(70, Shl8(reg, 3))
     IN  << <<opcode, Instruction(IX_LOAD_MNEMONICS[reg + 1], 3, 19, "Load")>>,
            <<BitOr(opcode, 128), Instruction(IY_LOAD_MNEMONICS[reg + 1], 3, 19, "Load")>> >>])

\* (base_op, op_idx)
DdfdArithmeticOps == << <<132, 0>>, <<140, 1>>, <<148, 2>>, <<156, 3>> >>

DdfdArithmeticInserts ==
  Flatten([n \in 1 .. 16 |->
     LET base_op == DdfdArithmeticOps[((n - 1) \div 4) + 1][1]
         op_idx == DdfdArithmeticOps[((n - 1) \div 4) + 1][2]
         reg_pair == (n - 1) % 4
         opcode == BitOr(base_op, Shl8(reg_pair, 4))
     IN  << <<opcode,
              Instruction(IX_ARITHMETIC_MNEMONICS[op_idx + 1][reg_pair + 1], 2, 15, "Arithmetic")>>,
            <<BitOr(opcode, 32),
              Instruction(IY_ARITHMETIC_MNEMONICS[op_idx + 1][reg_pair + 1], 2, 15, "Arithmetic")>> >>])

init_ddfd_table == DdfdLoadInserts \o DdfdArithmeticInserts

\* (opcode, mnemonic, t_states)
EdBlockInstructions ==
  << <<160, "LDI", 16>>, <<161, "CPI", 16>>, <<162, "INI", 16>>, <<163, "OUTI", 16>>,
     <<168, "LDD", 16>>, <<169, "CPD", 16>>, <<170, "IND", 16>>, <<171, "OUTD", 16>>,
     <<176, "LDIR", 21>>, <<177, "CPIR", 21>>, <<178, "INIR", 21>>, <<179, "OTIR", 21>>,
     <<184, "LDDR", 21>>, <<185, "CPDR", 21>>, <<186, "INDR", 21>>, <<187, "OTDR", 21>> >>

\* (opcode, mnemonic)
EdIoInstructions ==
  << <<64, "IN B,(C)">>, <<65, "OUT (C),B">>, <<72, "IN C,(C)">>, <<73, "OUT (C),C">>,
     <<80, "IN D,(C)">>, <<81, "OUT (C),D">>, <<88, "IN E,(C)">>, <<89, "OUT (C),E">>,
     <<96, "IN H,(C)">>, <<97, "OUT (C),H">>, <<104, "IN L,(C)">>, <<105, "OUT (C),L">>,
     <<112, "IN (C)">>, <<113, "OUT (C),0">>, <<120, "IN A,(C)">>, <<121, "OUT (C),A">> >>

\* (opcode, mnemonic, t_states)
EdArithmeticOps ==
  << <<76, "NEG", 8>>, <<103, "RRD", 18>>, <<111, "RLD", 18>>,
     <<68, "IM 0", 8>>, <<84, "IM 1", 8>>, <<94, "IM 2", 8>> >>

init_ed_table ==
  [n \in 1 .. 16 |->
     <<EdBlockInstructions[n][1],
       Instruction(EdBlockInstructions[n][2], 2, EdBlockInstructions[n][3], "Block")>>]
  \o [n \in 1 .. 16 |->
     <<EdIoInstructions[n][1], Instruction(EdIoInstructions[n][2], 2, 12, "IO")>>]
  \o [n \in 1 .. 6 |->
     <<EdArithmeticOps[n][1],
       Instruction(EdArithmeticOps[n][2], 2, EdArithmeticOps[n][3], "Arithmetic")>>]

\* InstructionTables::new(): the four maps after initialize().
InstructionTables ==
  [ main |-> InsertAll(init_main_table),
    cb   |-> InsertAll(init_cb_table),
    ddfd |-> InsertAll(init_ddfd_table),
    ed   |-> InsertAll(init_ed_table) ]

lookup_main(opcode) == MapGet(InstructionTables.main, opcode)
lookup_cb(opcode)   == MapGet(InstructionTables.cb, opcode)
lookup_ddfd(opcode) == MapGet(InstructionTables.ddfd, opcode)
lookup_ed(opcode)   == MapGet(InstructionTables.ed, opcode)

(***************************************************************************)
(* Results and errors (lib.rs).                                            *)
(***************************************************************************)
Ok(x)  == [ok |-> TRUE, value |-> x]
Err(e) == [ok |-> FALSE, error |-> e]

InvalidOpcode(opcode) == [kind |-> "InvalidOpcode", arg |-> opcode]
MemoryError(address)  == [kind |-> "MemoryError", arg |-> address]

(***************************************************************************)
(* State.                                                                  *)
(***************************************************************************)
VARIABLES
  decoder,      \* Decoder: current_prefix, current_prefix_t_states
  dlast,        \* the last call made on the decoder and what it returned
  fed,          \* the decode calls made since Decoder::new(), while tracked
  cpu,          \* Cpu (cpu/mod.rs): registers, flags and the T-state counter
  memory,       \* Memory.ram: the bytes written so far, every other byte 0
  event_queue,  \* EventQueue.events
  last,         \* the last call made on the Cpu or the queue and its return
  calls,        \* how many step() calls were made since reset, and how many failed
  core,         \* Cpu (cpu/core.rs): registers, flip-flops, halted and its memory
  clast         \* the last two calls made on that Cpu and the states they started in

vars == <<decoder, dlast, fed, cpu, memory, event_queue, last, calls, core, clast>>

(***************************************************************************)
(* Decoder (cpu/decoder.rs).                                               *)
(***************************************************************************)
Prefix == {"None", "Cb", "Dd", "Fd", "Ed", "DdCb", "FdCb"}

Decoder_new == [current_prefix |-> "None", current_prefix_t_states |-> 0]

\* Faulty variant: 0xCB also nests under a pending ED prefix.
handle_prefix_nests_under_ed(current_prefix, opcode) ==
  CASE current_prefix = "None" /\ opcode = 203 -> [current_prefix |-> "Cb", matched |-> TRUE]
    [] current_prefix = "None" /\ opcode = 221 -> [current_prefix |-> "Dd", matched |-> TRUE]
    [] current_prefix = "None" /\ opcode = 253 -> [current_prefix |-> "Fd", matched |-> TRUE]
    [] current_prefix = "None" /\ opcode = 237 -> [current_prefix |-> "Ed", matched |-> TRUE]
    [] current_prefix = "Dd" /\ opcode = 203 -> [current_prefix |-> "DdCb", matched |-> TRUE]
    [] current_prefix = "Fd" /\ opcode = 203 -> [current_prefix |-> "FdCb", matched |-> TRUE]
    [] current_prefix = "Ed" /\ opcode = 203 -> [current_prefix |-> "DdCb", matched |-> TRUE]
    [] OTHER -> [current_prefix |-> current_prefix, matched |-> FALSE]

\* handle_prefix: the new prefix and the bool it returns.
handle_prefix(current_prefix, opcode) ==
  CASE current_prefix = "None" /\ opcode = 203 -> [current_prefix |-> "Cb", matched |-> TRUE]
    [] current_prefix = "None" /\ opcode = 221 -> [current_prefix |-> "Dd", matched |-> TRUE]
    [] current_prefix = "None" /\ opcode = 253 -> [current_prefix |-> "Fd", matched |-> TRUE]
    [] current_prefix = "None" /\ opcode = 237 -> [current_prefix |-> "Ed", matched |-> TRUE]
    [] current_prefix = "Dd" /\ opcode = 203 -> [current_prefix |-> "DdCb", matched |-> TRUE]
    [] current_prefix = "Fd" /\ opcode = 203 -> [current_prefix |-> "FdCb", matched |-> TRUE]
    [] OTHER -> [current_prefix |-> current_prefix, matched |-> FALSE]

\* The match on current_prefix in decode: the table consulted, if any.
decode_lookup(current_prefix, opcode) ==
  CASE current_prefix = "None" -> lookup_main(opcode)
    [] current_prefix = "Cb" -> lookup_cb(opcode)
    [] current_prefix = "Ed" -> lookup_ed(opcode)
    [] current_prefix \in {"Dd", "Fd"} -> lookup_ddfd(opcode)
    [] OTHER -> None

\* Faulty variant: a resolved instruction leaves the prefix state as it was.
decode_keeps_prefix(d, opcode) ==
  LET hp == handle_prefix(d.current_prefix, opcode)
      found == decode_lookup(d.current_prefix, opcode)
  IN  IF hp.matched
      THEN [ decoder |-> [ current_prefix |-> hp.current_prefix,
                           current_prefix_t_states |->
                             (d.current_prefix_t_states + 4) % U8 ],
             result |-> Ok(PREFIX_INSTRUCTION) ]
      ELSE IF found = None
      THEN [ decoder |-> [ current_prefix |-> d.current_prefix,
                           current_prefix_t_states |-> 0 ],
             result |-> Err(InvalidOpcode(opcode)) ]
      ELSE [ decoder |-> d,
             result |-> Ok([found[1] EXCEPT
                              !.t_states = @ + d.current_prefix_t_states]) ]

\* decode(opcode) on decoder state d: the state it leaves and the result.
decode(d, opcode) ==
  LET hp == handle_prefix(d.current_prefix, opcode)
      found == decode_lookup(d.current_prefix, opcode)
      prefix_t_states == d.current_prefix_t_states
  IN  IF hp.matched
      THEN [ decoder |-> [ current_prefix |-> hp.current_prefix,
                           current_prefix_t_states |->
                             (d.current_prefix_t_states + 4) % U8 ],
             result |-> Ok(PREFIX_INSTRUCTION) ]
      ELSE IF found = None
      THEN [ decoder |-> [ current_prefix |-> d.current_prefix,
                           current_prefix_t_states |-> 0 ],
             result |-> Err(InvalidOpcode(opcode)) ]
      ELSE [ decoder |-> [ current_prefix |-> "None",
                           current_prefix_t_states |-> 0 ],
             result |-> Ok([found[1] EXCEPT
                              !.t_states = @ + prefix_t_states]) ]

\* The byte sequences whose decoding from Decoder::new() is followed call by call.
TrackedFeeds == { <<221, 203, 6>> }

Untracked == [tracked |-> FALSE, calls |-> << >>]

IsTrackedPrefix(bytes) ==
  \E t \in TrackedFeeds :
    Len(bytes) <= Len(t) /\ \A i \in 1 .. Len(bytes) : bytes[i] = t[i]

FedBytes == [i \in 1 .. Len(fed.calls) |-> fed.calls[i].opcode]

Track(opcode, out) ==
  IF fed.tracked /\ IsTrackedPrefix(Append(FedBytes, opcode))
  THEN [ tracked |-> TRUE,
         calls |-> Append(fed.calls, [ opcode |-> opcode, result |-> out.result,
                                       current_prefix |-> out.decoder.current_prefix ]) ]
  ELSE Untracked

CpuUnchanged == UNCHANGED <<cpu, memory, event_queue, last, calls, core, clast>>

Decode(opcode) ==
  LET out == decode(decoder, opcode)
  IN  /\ decoder' = out.decoder
      /\ dlast' = [ op |-> "decode", opcode |-> opcode,
                    prefix_before |-> decoder.current_prefix,
                    t_states_before |-> decoder.current_prefix_t_states,
                    prefix_pending |-> handle_prefix(decoder.current_prefix, opcode).matched,
                    result |-> out.result ]
      /\ fed' = Track(opcode, out)
      /\ CpuUnchanged

\* handle_prefix called on its own, as decoder.rs' test_prefix_handling does.
HandlePrefix(opcode) ==
  LET hp == handle_prefix(decoder.current_prefix, opcode)
  IN  /\ decoder' = [decoder EXCEPT !.current_prefix = hp.current_prefix]
      /\ dlast' = [ op |-> "handle_prefix", opcode |-> opcode,
                    prefix_before |-> decoder.current_prefix,
                    t_states_before |-> decoder.current_prefix_t_states,
                    prefix_pending |-> hp.matched,
                    result |-> Ok(hp.matched) ]
      /\ fed' = Untracked
      /\ CpuUnchanged

\* The bytes handle_prefix is called with directly: the four prefix bytes and NOP.
PrefixProbes == {0, 203, 221, 237, 253}

DecoderNext ==
  \/ \E opcode \in Byte : Decode(opcode)
  \/ \E opcode \in PrefixProbes : HandlePrefix(opcode)

(***************************************************************************)
(* Memory (memory/mod.rs).                                                 *)
(***************************************************************************)
MEMORY_SIZE == 65536

\* Memory::new(): vec![0; MEMORY_SIZE]; the map holds the bytes written since.
Memory_new == [address \in {} |-> 0]

read_byte(ram, address) == IF address \in DOMAIN ram THEN ram[address] ELSE 0

\* Memory::load: the memory it leaves and the result.
load(ram, address, data) ==
  LET start == address
      end == start + Len(data)
  IN  IF end > MEMORY_SIZE
      THEN [memory |-> ram, result |-> Err(MemoryError(address))]
      ELSE [ memory |-> [x \in DOMAIN ram \cup (start .. end - 1) |->
                           IF x \in start .. end - 1 THEN data[x - start + 1] ELSE ram[x]],
             result |-> Ok("unit") ]

(***************************************************************************)
(* EventQueue (event/mod.rs).                                              *)
(***************************************************************************)
Event == {"Interrupt", "Timer"}

EventQueue_new == << >>

\* Vec::sort_by_key is a stable sort: insertion keeps equal keys in order.
RECURSIVE InsertByKey(_, _)
InsertByKey(sorted, x) ==
  IF sorted = << >> THEN << x >>
  ELSE IF Head(sorted).t_state <= x.t_state
       THEN << Head(sorted) >> \o InsertByKey(Tail(sorted), x)
       ELSE << x >> \o sorted

RECURSIVE sort_by_key(_)
sort_by_key(events) ==
  IF events = << >> THEN << >>
  ELSE InsertByKey(sort_by_key(SubSeq(events, 1, Len(events) - 1)), events[Len(events)])

\* Faulty variant: the event is appended and the queue is not sorted again.
push_without_sort(events, event, t_state) ==
  Append(events, [event |-> event, t_state |-> t_state])

push(events, event, t_state) ==
  sort_by_key(Append(events, [event |-> event, t_state |-> t_state]))

peek(events) == IF events = << >> THEN None ELSE Some(Head(events))

\* pop: the queue it leaves and the Option it returns.
pop(events) ==
  IF events = << >>
  THEN [events |-> events, returned |-> None]
  ELSE [events |-> Tail(events), returned |-> Some(Head(events))]

(***************************************************************************)
(* Cpu (cpu/mod.rs).                                                       *)
(***************************************************************************)
Flags_default ==
  [ sign |-> FALSE, zero |-> FALSE, half_carry |-> FALSE, parity |-> FALSE,
    add_subtract |-> FALSE, carry |-> FALSE ]

\* Flags::to_byte: the six fields at their bit positions, bits 5 and 3 zero.
to_byte(flags) ==
  LET r0 == 0
      r1 == IF flags.sign THEN BitOr(r0, 128) ELSE r0
      r2 == IF flags.zero THEN BitOr(r1, 64) ELSE r1
      r3 == IF flags.half_carry THEN BitOr(r2, 16) ELSE r2
      r4 == IF flags.parity THEN BitOr(r3, 4) ELSE r3
      r5 == IF flags.add_subtract THEN BitOr(r4, 2) ELSE r4
  IN  IF flags.carry THEN BitOr(r5, 1) ELSE r5

\* Flags::from_byte: every field is assigned from its bit.
from_byte(flags, byte) ==
  [flags EXCEPT !.sign = BitAnd(byte, 128) # 0,
                !.zero = BitAnd(byte, 64) # 0,
                !.half_carry = BitAnd(byte, 16) # 0,
                !.parity = BitAnd(byte, 4) # 0,
                !.add_subtract = BitAnd(byte, 2) # 0,
                !.carry = BitAnd(byte, 1) # 0]

Cpu_new ==
  [ pc |-> 0, sp |-> 65535,
    a |-> 0, b |-> 0, c |-> 0, d |-> 0, e |-> 0, h |-> 0, l |-> 0,
    a_prime |-> 0, b_prime |-> 0, c_prime |-> 0, d_prime |-> 0, e_prime |-> 0,
    h_prime |-> 0, l_prime |-> 0,
    ix |-> 0, iy |-> 0, i |-> 0, r |-> 0,
    flags |-> Flags_default, flags_prime |-> Flags_default,
    t_states |-> 0 ]

\* increment_r: bit 7 kept, the low seven bits incremented.
\* `self.r + 1` in increment_r is a u8 addition: with r = 0xFF it overflows,
\* which panics where overflow checks are compiled in (debug and test
\* profiles) and wraps where they are not (release profile).
increment_r_overflows(c) == c.r + 1 >= U8

increment_r(c) ==
  [c EXCEPT !.r = BitOr(BitAnd(c.r, 128), BitAnd((c.r + 1) % U8, 127))]

\* handle_interrupt and handle_timer are stubs that return Ok(()).
handle_interrupt(c) == c

handle_timer(c) == c

handle_event(c, event) ==
  CASE event = "Interrupt" -> handle_interrupt(c)
    [] event = "Timer" -> handle_timer(c)

\* Faulty variant: an event due exactly now is left for a later cycle.
is_due_only_when_past(t_state, c) == t_state < c.t_states

\* The loop test of process_events: it breaks when *t_state > self.t_states.
is_due(t_state, c) == ~(t_state > c.t_states)

\* process_events: while the head of the queue is due, pop it and handle it.
\* Yields the Cpu, the queue left, and the events handled with the T-state
\* count at which each was handled.
RECURSIVE process_events(_, _, _)
process_events(c, events, handled) ==
  IF peek(events) = None \/ ~is_due(peek(events)[1].t_state, c)
  THEN [cpu |-> c, events |-> events, handled |-> handled]
  ELSE LET popped == pop(events)
           ev == popped.returned[1]
       IN  process_events(handle_event(c, ev.event), popped.events,
                          Append(handled, [ event |-> ev.event, t_state |-> ev.t_state,
                                            at |-> c.t_states ]))

\* Faulty variant: an unknown opcode is replaced by NOP instead of failing.
step_decode_substitutes_nop(opcode) == Ok(create_nop)

\* The match on the opcode in step().
step_decode(opcode) ==
  IF opcode = 0 THEN Ok(create_nop) ELSE Err(InvalidOpcode(opcode))

\* (instruction.execute)(self): every executor bound so far is |_cpu| Ok(()).
execute(instruction, c) == c

\* Faulty variant: the opcode fetch is charged on top of the instruction's cost.
add_t_states_and_fetch(c, instruction) ==
  [c EXCEPT !.t_states = @ + 4 + instruction.t_states]

\* self.t_states += instruction.t_states
add_t_states(c, instruction) == [c EXCEPT !.t_states = @ + instruction.t_states]

\* self.pc = self.pc.wrapping_add(instruction.length as u16)
increment_pc(c, instruction) == [c EXCEPT !.pc = (@ + instruction.length) % U16]

\* step(): the Cpu and queue it leaves, what it returns, and what it did.
\* t_states is a u32; it stays far below 2^32 for every run of at most
\* MaxRunSteps steps, so its additions are exact here.
\* Faulty variant: a failed decode has already charged the fetch and moved
\* past the byte.
step_charges_failed_fetch(c, ram, events) ==
  LET start_t_states == c.t_states
      s0 == process_events(c, events, << >>)
      opcode == read_byte(ram, s0.cpu.pc)
      s1 == process_events(s0.cpu, s0.events, s0.handled)
      c2 == increment_r(s1.cpu)
      decoded == step_decode(opcode)
  IN  IF ~decoded.ok
      THEN [ cpu |-> [c2 EXCEPT !.t_states = @ + 4, !.pc = (@ + 1) % U16],
             events |-> s1.events, handled |-> s1.handled,
             opcode |-> opcode, pc_executed |-> c2.pc, result |-> Err(decoded.error) ]
      ELSE LET instruction == decoded.value
               c3 == execute(instruction, c2)
               s3 == process_events(c3, s1.events, s1.handled)
               c4 == add_t_states(s3.cpu, instruction)
               s4 == process_events(c4, s3.events, s3.handled)
               c5 == increment_pc(s4.cpu, instruction)
           IN  [ cpu |-> c5, events |-> s4.events, handled |-> s4.handled,
                 opcode |-> opcode, pc_executed |-> c3.pc,
                 result |-> Ok(c5.t_states - start_t_states) ]

step(c, ram, events) ==
  LET start_t_states == c.t_states
      s0 == process_events(c, events, << >>)
      opcode == read_byte(ram, s0.cpu.pc)
      s1 == process_events(s0.cpu, s0.events, s0.handled)
      c2 == increment_r(s1.cpu)
      decoded == step_decode(opcode)
  IN  IF ~decoded.ok
      THEN [ cpu |-> c2, events |-> s1.events, handled |-> s1.handled,
             opcode |-> opcode, pc_executed |-> c2.pc, result |-> Err(decoded.error) ]
      ELSE LET instruction == decoded.value
               c3 == execute(instruction, c2)
               s3 == process_events(c3, s1.events, s1.handled)
               c4 == add_t_states(s3.cpu, instruction)
               s4 == process_events(c4, s3.events, s3.handled)
               c5 == increment_pc(s4.cpu, instruction)
           IN  [ cpu |-> c5, events |-> s4.events, handled |-> s4.handled,
                 opcode |-> opcode, pc_executed |-> c3.pc,
                 result |-> Ok(c5.t_states - start_t_states) ]

DecoderUnchanged == UNCHANGED <<decoder, dlast, fed, core, clast>>

\* FlagUtils and update_arithmetic_flags (cpu/instruction.rs), on the Flags
\* of the Cpu of cpu/mod.rs.
update_half_carry_flag(c, a, b, carry) ==
  LET carry_in == IF carry THEN 1 ELSE 0
  IN  [c EXCEPT !.flags.half_carry =
         BitAnd(BitAnd(a, 15) + BitAnd(b, 15) + carry_in, 16) # 0]

update_overflow_flag(c, a, b, result) ==
  LET a_neg == BitAnd(a, 128) # 0
      b_neg == BitAnd(b, 128) # 0
      r_neg == BitAnd(result, 128) # 0
  IN  [c EXCEPT !.flags.parity = (a_neg = b_neg) /\ (a_neg # r_neg)]

\* update_carry_flag, update_szp_flags and the u8 complement "!b" are written
\* out; r is a u16 when adding and an i16 in -256 .. 255 when subtracting.
update_arithmetic_flags(c, a, b, carry, is_add) ==
  LET r == IF is_add THEN a + b + (IF carry THEN 1 ELSE 0)
                     ELSE a - b - (IF carry THEN 1 ELSE 0)
      c1 == [c EXCEPT !.flags.carry = IF is_add THEN r > 255 ELSE r < 0]
      c2 == IF is_add THEN update_half_carry_flag(c1, a, b, carry)
                      ELSE update_half_carry_flag(c1, a, (U8 - 1) - b, ~carry)
      result == (r + U16) % U8
      c3 == [c2 EXCEPT !.flags.add_subtract = ~is_add]
      c4 == [c3 EXCEPT !.flags.sign = BitAnd(result, 128) # 0,
                       !.flags.zero = (result = 0),
                       !.flags.parity = (count_ones(result) % 2 = 0)]
  IN  IF is_add THEN update_overflow_flag(c4, a, b, result)
                ELSE update_overflow_flag(c4, a, (U8 - 1) - b, result)

(***************************************************************************)
(* Cpu (cpu/core.rs) and its interrupt handling (cpu/interrupts.rs).       *)
(***************************************************************************)
\* Cpu::new(): memory is vec![0; 65536], kept as the bytes written so far.
Core_new ==
  [ a |-> 0, b |-> 0, c |-> 0, d |-> 0, e |-> 0, h |-> 0, i |-> 0, l |-> 0, f |-> 0,
    pc |-> 0, sp |-> 0, di |-> 0, ix |-> 0, iy |-> 0,
    a_alt |-> 0, b_alt |-> 0, c_alt |-> 0, d_alt |-> 0, e_alt |-> 0, h_alt |-> 0,
    l_alt |-> 0, f_alt |-> 0,
    iff1 |-> FALSE, iff2 |-> FALSE, im |-> 0,
    memory |-> << >>, halted |-> FALSE, interrupt_mode |-> 0 ]

core_read_byte(c, address) ==
  IF address \in DOMAIN c.memory THEN c.memory[address] ELSE 0

core_write_byte(c, address, value) ==
  [c EXCEPT !.memory = [x \in DOMAIN c.memory \cup {address} |->
                          IF x = address THEN value ELSE c.memory[x]]]

\* Low byte at address, high byte at address.wrapping_add(1).
core_write_word(c, address, value) ==
  core_write_byte(core_write_byte(c, address, value % U8),
                  (address + 1) % U16, (value \div U8) % U8)

core_read_word(c, address) ==
  LET low == core_read_byte(c, address)
      high == core_read_byte(c, (address + 1) % U16)
  IN  (high * U8) + low

core_increment_pc(c, amount) == [c EXCEPT !.pc = (@ + amount) % U16]

\* fetch_byte: the byte at PC, and the Cpu with PC advanced.
fetch_byte(c) ==
  [byte |-> core_read_byte(c, c.pc), cpu |-> [c EXCEPT !.pc = (@ + 1) % U16]]

fetch_word(c) ==
  LET lo == fetch_byte(c)
      hi == fetch_byte(lo.cpu)
  IN  [word |-> (hi.byte * U8) + lo.byte, cpu |-> hi.cpu]

nop(c) == c

ld_bc(c, value) == [c EXCEPT !.b = (value \div U8) % U8, !.c = value % U8]

halt(c) == [c EXCEPT !.halted = TRUE]

\* execute: the Cpu it leaves, or a panic on an opcode it does not implement.
core_execute(c, opcode) ==
  CASE opcode = 0 -> [cpu |-> nop(c), panicked |-> FALSE]
    [] opcode = 1 -> LET w == fetch_word(c)
                     IN  [cpu |-> ld_bc(w.cpu, w.word), panicked |-> FALSE]
    [] opcode = 118 -> [cpu |-> halt(c), panicked |-> FALSE]
    [] OTHER -> [cpu |-> c, panicked |-> TRUE]

\* Faulty variant: step() fetches and executes although the Cpu is halted.
core_step_ignores_halt(c) ==
  LET fetched == fetch_byte(c)
  IN  core_execute(fetched.cpu, fetched.byte)

core_step(c) ==
  IF c.halted
  THEN [cpu |-> c, panicked |-> FALSE]
  ELSE LET fetched == fetch_byte(c)
       IN  core_execute(fetched.cpu, fetched.byte)

\* The stack push shared by the handlers: sp.wrapping_sub(2), write_word(sp, pc).
push_pc(c) ==
  LET c1 == [c EXCEPT !.sp = (@ + U16 - 2) % U16]
  IN  core_write_word(c1, c1.sp, c1.pc)

\* if self.halted { halted = false; pc = pc.wrapping_add(1) }
leave_halt(c) ==
  IF c.halted THEN [c EXCEPT !.halted = FALSE, !.pc = (@ + 1) % U16] ELSE c

\* Faulty variant: the flip-flops are assigned the wrong way round, IFF1
\* taking IFF2 and IFF2 cleared.
handle_nmi_swaps_flip_flops(c) ==
  LET c1 == leave_halt(c)
      c2 == [c1 EXCEPT !.iff1 = c1.iff2, !.iff2 = FALSE]
  IN  [push_pc(c2) EXCEPT !.pc = 102]

\* Faulty variant: the NMI is masked by IFF1 like a maskable interrupt.
handle_nmi_masked(c) ==
  IF ~c.iff1 THEN c
  ELSE LET c1 == leave_halt(c)
           c2 == [c1 EXCEPT !.iff2 = c1.iff1, !.iff1 = FALSE]
       IN  [push_pc(c2) EXCEPT !.pc = 102]

handle_nmi(c) ==
  LET c1 == leave_halt(c)
      c2 == [c1 EXCEPT !.iff2 = c1.iff1, !.iff1 = FALSE]
  IN  [push_pc(c2) EXCEPT !.pc = 102]

\* Faulty variant: mode 0 jumps to the NMI vector.
handle_interrupt_mode0_to_0066(c) == [push_pc(c) EXCEPT !.pc = 102]

handle_interrupt_mode0(c) == [push_pc(c) EXCEPT !.pc = 56]

handle_interrupt_mode1(c) == [push_pc(c) EXCEPT !.pc = 56]

\* Faulty variant: the jump target is read after the return PC was pushed.
handle_interrupt_mode2_reads_late(c) ==
  LET address == BitOr((c.i * U8) % U16, 255)
      pushed == push_pc(c)
  IN  [pushed EXCEPT !.pc = core_read_word(pushed, address)]

handle_interrupt_mode2(c) ==
  LET vector == 255
      address == BitOr((c.i * U8) % U16, vector)
      jump_address == core_read_word(c, address)
  IN  [push_pc(c) EXCEPT !.pc = jump_address]

\* Faulty variant: a halted Cpu is woken before IFF1 is tested.
core_handle_interrupt_wakes_first(c) ==
  LET c1 == leave_halt(c)
      c2 == [c1 EXCEPT !.iff1 = FALSE, !.iff2 = FALSE]
  IN  IF ~c.iff1
      THEN [cpu |-> c1, panicked |-> FALSE]
      ELSE CASE c2.interrupt_mode = 0 -> [cpu |-> handle_interrupt_mode0(c2), panicked |-> FALSE]
             [] c2.interrupt_mode = 1 -> [cpu |-> handle_interrupt_mode1(c2), panicked |-> FALSE]
             [] c2.interrupt_mode = 2 -> [cpu |-> handle_interrupt_mode2(c2), panicked |-> FALSE]
             [] OTHER -> [cpu |-> c2, panicked |-> TRUE]

\* handle_interrupt: the Cpu it leaves, or a panic on an interrupt mode above 2.
core_handle_interrupt(c) ==
  IF ~c.iff1
  THEN [cpu |-> c, panicked |-> FALSE]
  ELSE LET c1 == leave_halt(c)
           c2 == [c1 EXCEPT !.iff1 = FALSE, !.iff2 = FALSE]
       IN  CASE c2.interrupt_mode = 0 -> [cpu |-> handle_interrupt_mode0(c2), panicked |-> FALSE]
             [] c2.interrupt_mode = 1 -> [cpu |-> handle_interrupt_mode1(c2), panicked |-> FALSE]
             [] c2.interrupt_mode = 2 -> [cpu |-> handle_interrupt_mode2(c2), panicked |-> FALSE]
             [] OTHER -> [cpu |-> c2, panicked |-> TRUE]

ei(c) == [c EXCEPT !.iff1 = TRUE, !.iff2 = TRUE]

di(c) == [c EXCEPT !.iff1 = FALSE, !.iff2 = FALSE]

InterruptMode == {0, 1, 2}

set_interrupt_mode(c, mode) == [c EXCEPT !.interrupt_mode = mode]

\* Faulty variant: IFF1 is left as the NMI set it.
retn_keeps_iff1(c) ==
  LET c1 == [c EXCEPT !.pc = core_read_word(c, c.sp)]
  IN  [c1 EXCEPT !.sp = (@ + 2) % U16]

retn(c) ==
  LET c1 == [c EXCEPT !.pc = core_read_word(c, c.sp)]
      c2 == [c1 EXCEPT !.sp = (@ + 2) % U16]
  IN  [c2 EXCEPT !.iff1 = c2.iff2]

reti(c) ==
  LET c1 == [c EXCEPT !.pc = core_read_word(c, c.sp)]
      c2 == [c1 EXCEPT !.sp = (@ + 2) % U16]
  IN  [c2 EXCEPT !.iff1 = TRUE, !.iff2 = TRUE]

(***************************************************************************)
(* Flag bits and flag access (cpu/flags.rs).                               *)
(***************************************************************************)
FLAG_C  == 1
FLAG_N  == 2
FLAG_PV == 4
FLAG_X  == 8
FLAG_H  == 16
FLAG_Y  == 32
FLAG_Z  == 64
FLAG_S  == 128

\* self.f |= flag, or self.f &= !flag.
set_flag(c, flag, value) ==
  [c EXCEPT !.f = IF value THEN BitOr(@, flag) ELSE BitAnd(@, (U8 - 1) - flag)]

get_flag(c, flag) == BitAnd(c.f, flag) # 0

(***************************************************************************)
(* Register pairs (cpu/registers.rs) and the stack                         *)
(* (cpu/instructions/load.rs).                                             *)
(***************************************************************************)
RegisterPair == {"BC", "DE", "HL", "AF", "SP", "IX", "IY"}

read_register_pair(c, pair) ==
  CASE pair = "BC" -> BitOr((c.b * U8) % U16, c.c)
    [] pair = "DE" -> BitOr((c.d * U8) % U16, c.e)
    [] pair = "HL" -> BitOr((c.h * U8) % U16, c.l)
    [] pair = "AF" -> BitOr((c.a * U8) % U16, c.f)
    [] pair = "SP" -> c.sp
    [] pair = "IX" -> c.ix
    [] pair = "IY" -> c.iy

write_register_pair(c, pair, value) ==
  LET high == (value \div U8) % U8
      low == value % U8
  IN  CASE pair = "BC" -> [c EXCEPT !.b = high, !.c = low]
        [] pair = "DE" -> [c EXCEPT !.d = high, !.e = low]
        [] pair = "HL" -> [c EXCEPT !.h = high, !.l = low]
        [] pair = "AF" -> [c EXCEPT !.a = high, !.f = low]
        [] pair = "SP" -> [c EXCEPT !.sp = value]
        [] pair = "IX" -> [c EXCEPT !.ix = value]
        [] pair = "IY" -> [c EXCEPT !.iy = value]

\* push: SP goes down by two (wrapping), then the word is written at SP.
core_push(c, value) ==
  LET c1 == [c EXCEPT !.sp = (@ + U16 - 2) % U16]
  IN  core_write_word(c1, c1.sp, value)

\* Faulty variant: SP stops at 0xFFFF instead of wrapping to 0x0000/0x0001.
core_pop_saturating(c) ==
  [value |-> core_read_word(c, c.sp),
   cpu |-> [c EXCEPT !.sp = IF @ + 2 >= U16 THEN U16 - 1 ELSE @ + 2]]

\* pop: the word at SP, and the Cpu with SP two higher (wrapping).
core_pop(c) ==
  [value |-> core_read_word(c, c.sp), cpu |-> [c EXCEPT !.sp = (@ + 2) % U16]]

push_rr(c, pair) == core_push(c, read_register_pair(c, pair))

pop_rr(c, pair) ==
  LET popped == core_pop(c)
  IN  write_register_pair(popped.cpu, pair, popped.value)

(***************************************************************************)
(* Block transfer and search (cpu/instructions/block_operations.rs).       *)
(* get_hl/get_de/get_bc and set_hl/set_de/set_bc of cpu/core.rs are        *)
(* written out where they are called.                                      *)
(***************************************************************************)
\* Faulty variant: DE is not advanced, every byte lands on the first address.
ldi_keeps_de(c) ==
  LET hl == BitOr((c.h * U8) % U16, c.l)
      de == BitOr((c.d * U8) % U16, c.e)
      bc == BitOr((c.b * U8) % U16, c.c)
      value == core_read_byte(c, hl)
      c1 == core_write_byte(c, de, value)
      hl1 == (hl + 1) % U16
      bc1 == (bc + U16 - 1) % U16
      c2 == [c1 EXCEPT !.h = (hl1 \div U8) % U8, !.l = hl1 % U8,
                       !.b = (bc1 \div U8) % U8, !.c = bc1 % U8]
      n == (c2.a + value) % U8
      c3 == set_flag(c2, BitOr(FLAG_H, FLAG_N), FALSE)
      c4 == set_flag(c3, FLAG_PV, bc1 # 0)
      c5 == set_flag(c4, FLAG_Y, BitAnd(n, 2) # 0)
  IN  set_flag(c5, FLAG_X, BitAnd(n, 8) # 0)

ldi(c) ==
  LET hl == BitOr((c.h * U8) % U16, c.l)
      de == BitOr((c.d * U8) % U16, c.e)
      bc == BitOr((c.b * U8) % U16, c.c)
      value == core_read_byte(c, hl)
      c1 == core_write_byte(c, de, value)
      hl1 == (hl + 1) % U16
      de1 == (de + 1) % U16
      bc1 == (bc + U16 - 1) % U16
      c2 == [c1 EXCEPT !.h = (hl1 \div U8) % U8, !.l = hl1 % U8,
                       !.d = (de1 \div U8) % U8, !.e = de1 % U8,
                       !.b = (bc1 \div U8) % U8, !.c = bc1 % U8]
      n == (c2.a + value) % U8
      c3 == set_flag(c2, BitOr(FLAG_H, FLAG_N), FALSE)
      c4 == set_flag(c3, FLAG_PV, bc1 # 0)
      c5 == set_flag(c4, FLAG_Y, BitAnd(n, 2) # 0)
  IN  set_flag(c5, FLAG_X, BitAnd(n, 8) # 0)

\* loop { ldi(); if BC == 0 { break } pc = pc.wrapping_sub(2) }
RECURSIVE ldir(_)
ldir(c) ==
  LET c1 == ldi(c)
  IN  IF c1.b = 0 /\ c1.c = 0
      THEN c1
      ELSE ldir([c1 EXCEPT !.pc = (@ + U16 - 2) % U16])

ldd(c) ==
  LET hl == BitOr((c.h * U8) % U16, c.l)
      de == BitOr((c.d * U8) % U16, c.e)
      bc == BitOr((c.b * U8) % U16, c.c)
      value == core_read_byte(c, hl)
      c1 == core_write_byte(c, de, value)
      hl1 == (hl + U16 - 1) % U16
      de1 == (de + U16 - 1) % U16
      bc1 == (bc + U16 - 1) % U16
      c2 == [c1 EXCEPT !.h = (hl1 \div U8) % U8, !.l = hl1 % U8,
                       !.d = (de1 \div U8) % U8, !.e = de1 % U8,
                       !.b = (bc1 \div U8) % U8, !.c = bc1 % U8]
      n == (c2.a + value) % U8
      c3 == set_flag(c2, BitOr(FLAG_H, FLAG_N), FALSE)
      c4 == set_flag(c3, FLAG_PV, bc1 # 0)
      c5 == set_flag(c4, FLAG_Y, BitAnd(n, 2) # 0)
  IN  set_flag(c5, FLAG_X, BitAnd(n, 8) # 0)

RECURSIVE lddr(_)
lddr(c) ==
  LET c1 == ldd(c)
  IN  IF c1.b = 0 /\ c1.c = 0
      THEN c1
      ELSE lddr([c1 EXCEPT !.pc = (@ + U16 - 2) % U16])

cpi(c) ==
  LET hl == BitOr((c.h * U8) % U16, c.l)
      bc == BitOr((c.b * U8) % U16, c.c)
      value == core_read_byte(c, hl)
      result == (c.a + U8 - value) % U8
      hl1 == (hl + 1) % U16
      bc1 == (bc + U16 - 1) % U16
      c1 == [c EXCEPT !.h = (hl1 \div U8) % U8, !.l = hl1 % U8,
                      !.b = (bc1 \div U8) % U8, !.c = bc1 % U8]
      c2 == set_flag(c1, FLAG_N, TRUE)
      c3 == set_flag(c2, FLAG_Z, result = 0)
      c4 == set_flag(c3, FLAG_H, BitAnd(c.a, 15) < BitAnd(value, 15))
      c5 == set_flag(c4, FLAG_PV, bc1 # 0)
      c6 == set_flag(c5, FLAG_S, BitAnd(result, 128) # 0)
      c7 == set_flag(c6, FLAG_Y, BitAnd(result, 2) # 0)
  IN  set_flag(c7, FLAG_X, BitAnd(result, 8) # 0)

\* Faulty variant: the search goes on after a match, until BC is 0.
RECURSIVE cpir_ignores_match(_)
cpir_ignores_match(c) ==
  LET c1 == cpi(c)
  IN  IF c1.b = 0 /\ c1.c = 0
      THEN c1
      ELSE cpir_ignores_match([c1 EXCEPT !.pc = (@ + U16 - 2) % U16])

\* loop { cpi(); if Z || BC == 0 { break } pc = pc.wrapping_sub(2) }
RECURSIVE cpir(_)
cpir(c) ==
  LET c1 == cpi(c)
  IN  IF get_flag(c1, FLAG_Z) \/ (c1.b = 0 /\ c1.c = 0)
      THEN c1
      ELSE cpir([c1 EXCEPT !.pc = (@ + U16 - 2) % U16])

cpd(c) ==
  LET hl == BitOr((c.h * U8) % U16, c.l)
      bc == BitOr((c.b * U8) % U16, c.c)
      value == core_read_byte(c, hl)
      result == (c.a + U8 - value) % U8
      hl1 == (hl + U16 - 1) % U16
      bc1 == (bc + U16 - 1) % U16
      c1 == [c EXCEPT !.h = (hl1 \div U8) % U8, !.l = hl1 % U8,
                      !.b = (bc1 \div U8) % U8, !.c = bc1 % U8]
      c2 == set_flag(c1, FLAG_N, TRUE)
      c3 == set_flag(c2, FLAG_Z, result = 0)
      c4 == set_flag(c3, FLAG_H, BitAnd(c.a, 15) < BitAnd(value, 15))
      c5 == set_flag(c4, FLAG_PV, bc1 # 0)
      c6 == set_flag(c5, FLAG_S, BitAnd(result, 128) # 0)
      c7 == set_flag(c6, FLAG_Y, BitAnd(result, 2) # 0)
  IN  set_flag(c7, FLAG_X, BitAnd(result, 8) # 0)

RECURSIVE cpdr(_)
cpdr(c) ==
  LET c1 == cpd(c)
  IN  IF get_flag(c1, FLAG_Z) \/ (c1.b = 0 /\ c1.c = 0)
      THEN c1
      ELSE cpdr([c1 EXCEPT !.pc = (@ + U16 - 2) % U16])

(***************************************************************************)
(* 8-bit arithmetic (cpu/instructions/arithmetic.rs).                      *)
(***************************************************************************)
\* carry as u8 / u16 / i16
BoolInt(b) == IF b THEN 1 ELSE 0

\* result is a u16; line 100 reads ((a ^ value ^ 0x80) & (a ^ result as u8)
\* & 0x80) == 0, "&" binding tighter than "==".
update_flags_add(c, a, value, carry) ==
  LET result == a + value + BoolInt(carry)
      c1 == set_flag(c, FLAG_S, BitAnd(result, 128) # 0)
      c2 == set_flag(c1, FLAG_Z, BitAnd(result, 255) = 0)
      c3 == set_flag(c2, FLAG_H, BitAnd(a, 15) + BitAnd(value, 15) + BoolInt(carry) > 15)
      c4 == set_flag(c3, FLAG_PV,
                     BitAnd(BitAnd(BitXor(BitXor(a, value), 128),
                                   BitXor(a, result % U8)), 128) = 0)
      c5 == set_flag(c4, FLAG_N, FALSE)
      c6 == set_flag(c5, FLAG_C, result > 255)
      c7 == set_flag(c6, FLAG_Y, BitAnd(result, 32) # 0)
  IN  set_flag(c7, FLAG_X, BitAnd(result, 8) # 0)

\* result is an i16 in -256 .. 255; its low byte is what "& 0x80", "& 0xFF"
\* and "as u8" see.
update_flags_sub(c, a, value, carry) ==
  LET result == a - value - BoolInt(carry)
      low == (result + U16) % U8
      c1 == set_flag(c, FLAG_S, BitAnd(low, 128) # 0)
      c2 == set_flag(c1, FLAG_Z, low = 0)
      c3 == set_flag(c2, FLAG_H, BitAnd(a, 15) < BitAnd(value, 15) + BoolInt(carry))
      c4 == set_flag(c3, FLAG_PV,
                     BitAnd(BitAnd(BitXor(a, value), BitXor(a, low)), 128) # 0)
      c5 == set_flag(c4, FLAG_N, TRUE)
      c6 == set_flag(c5, FLAG_C, result < 0)
      c7 == set_flag(c6, FLAG_Y, BitAnd(low, 32) # 0)
  IN  set_flag(c7, FLAG_X, BitAnd(low, 8) # 0)

add_a(c, value) ==
  LET a == c.a
      result == (a + value) % U8
  IN  [update_flags_add(c, a, value, FALSE) EXCEPT !.a = result]

adc_a(c, value) ==
  LET a == c.a
      carry == BoolInt(get_flag(c, FLAG_C))
      result == (a + value + carry) % U8
  IN  [update_flags_add(c, a, value, carry # 0) EXCEPT !.a = result]

sub_a(c, value) ==
  LET a == c.a
      result == (a + U8 - value) % U8
  IN  [update_flags_sub(c, a, value, FALSE) EXCEPT !.a = result]

sbc_a(c, value) ==
  LET a == c.a
      carry == BoolInt(get_flag(c, FLAG_C))
      result == (a + U16 - value - carry) % U8
  IN  [update_flags_sub(c, a, value, carry # 0) EXCEPT !.a = result]

\* Faulty variant: the carry flag follows the wrap from 0xFF to 0x00.
inc_sets_carry(c, value) ==
  LET result == (value + 1) % U8
      c1 == set_flag(c, FLAG_S, BitAnd(result, 128) # 0)
      c2 == set_flag(c1, FLAG_Z, result = 0)
      c3 == set_flag(c2, FLAG_H, BitAnd(value, 15) = 15)
      c4 == set_flag(c3, FLAG_PV, value = 127)
      c5 == set_flag(c4, FLAG_N, FALSE)
      c6 == set_flag(c5, FLAG_Y, BitAnd(result, 32) # 0)
      c7 == set_flag(c6, FLAG_X, BitAnd(result, 8) # 0)
  IN  [value |-> result, cpu |-> set_flag(c7, FLAG_C, value = 255)]

\* inc: the incremented value, and the Cpu with the flags set.
inc(c, value) ==
  LET result == (value + 1) % U8
      c1 == set_flag(c, FLAG_S, BitAnd(result, 128) # 0)
      c2 == set_flag(c1, FLAG_Z, result = 0)
      c3 == set_flag(c2, FLAG_H, BitAnd(value, 15) = 15)
      c4 == set_flag(c3, FLAG_PV, value = 127)
      c5 == set_flag(c4, FLAG_N, FALSE)
      c6 == set_flag(c5, FLAG_Y, BitAnd(result, 32) # 0)
  IN  [value |-> result, cpu |-> set_flag(c6, FLAG_X, BitAnd(result, 8) # 0)]

dec(c, value) ==
  LET result == (value + U8 - 1) % U8
      c1 == set_flag(c, FLAG_S, BitAnd(result, 128) # 0)
      c2 == set_flag(c1, FLAG_Z, result = 0)
      c3 == set_flag(c2, FLAG_H, BitAnd(value, 15) = 0)
      c4 == set_flag(c3, FLAG_PV, value = 128)
      c5 == set_flag(c4, FLAG_N, TRUE)
      c6 == set_flag(c5, FLAG_Y, BitAnd(result, 32) # 0)
  IN  [value |-> result, cpu |-> set_flag(c6, FLAG_X, BitAnd(result, 8) # 0)]

\* Faulty variant: the half-carry flag is left as it was.
daa_keeps_h(c) ==
  LET a0 == c.a
      adjust0 == IF get_flag(c, FLAG_C) THEN 96 ELSE 0
      adjust1 == IF get_flag(c, FLAG_H) \/ BitAnd(a0, 15) > 9
                 THEN BitOr(adjust0, 6) ELSE adjust0
      adjust == IF get_flag(c, FLAG_C) \/ a0 > 153
                THEN BitOr(adjust1, 96) ELSE adjust1
      a == IF get_flag(c, FLAG_N) THEN (a0 + U8 - adjust) % U8 ELSE (a0 + adjust) % U8
      c1 == set_flag(c, FLAG_S, BitAnd(a, 128) # 0)
      c2 == set_flag(c1, FLAG_Z, a = 0)
      c4 == set_flag(c2, FLAG_PV, count_ones(a) % 2 = 0)
      c5 == set_flag(c4, FLAG_C, adjust >= 96)
      c6 == set_flag(c5, FLAG_Y, BitAnd(a, 32) # 0)
      c7 == set_flag(c6, FLAG_X, BitAnd(a, 8) # 0)
  IN  [c7 EXCEPT !.a = a]

daa(c) ==
  LET a0 == c.a
      adjust0 == IF get_flag(c, FLAG_C) THEN 96 ELSE 0
      adjust1 == IF get_flag(c, FLAG_H) \/ BitAnd(a0, 15) > 9
                 THEN BitOr(adjust0, 6) ELSE adjust0
      adjust == IF get_flag(c, FLAG_C) \/ a0 > 153
                THEN BitOr(adjust1, 96) ELSE adjust1
      a == IF get_flag(c, FLAG_N) THEN (a0 + U8 - adjust) % U8 ELSE (a0 + adjust) % U8
      c1 == set_flag(c, FLAG_S, BitAnd(a, 128) # 0)
      c2 == set_flag(c1, FLAG_Z, a = 0)
      c3 == set_flag(c2, FLAG_H, FALSE)
      c4 == set_flag(c3, FLAG_PV, count_ones(a) % 2 = 0)
      c5 == set_flag(c4, FLAG_C, adjust >= 96)
      c6 == set_flag(c5, FLAG_Y, BitAnd(a, 32) # 0)
      c7 == set_flag(c6, FLAG_X, BitAnd(a, 8) # 0)
  IN  [c7 EXCEPT !.a = a]

(***************************************************************************)
(* Logic and compare (cpu/instructions/logical.rs).                        *)
(***************************************************************************)
\* Flags common to AND, OR and XOR, from the A they left.
update_flags_logical(c) ==
  LET c1 == set_flag(c, FLAG_S, BitAnd(c.a, 128) # 0)
      c2 == set_flag(c1, FLAG_Z, c.a = 0)
      c3 == set_flag(c2, FLAG_PV, count_ones(c.a) % 2 = 0)
      c4 == set_flag(c3, FLAG_N, FALSE)
      c5 == set_flag(c4, FLAG_C, FALSE)
      c6 == set_flag(c5, FLAG_Y, BitAnd(c.a, 32) # 0)
  IN  set_flag(c6, FLAG_X, BitAnd(c.a, 8) # 0)

\* Faulty variant: H is cleared as for OR and XOR.
and_a_clears_h(c, value) ==
  set_flag(update_flags_logical([c EXCEPT !.a = BitAnd(@, value)]), FLAG_H, FALSE)

and_a(c, value) ==
  set_flag(update_flags_logical([c EXCEPT !.a = BitAnd(@, value)]), FLAG_H, TRUE)

or_a(c, value) ==
  set_flag(update_flags_logical([c EXCEPT !.a = BitOr(@, value)]), FLAG_H, FALSE)

xor_a(c, value) ==
  set_flag(update_flags_logical([c EXCEPT !.a = BitXor(@, value)]), FLAG_H, FALSE)

\* Faulty variant: the difference is stored in A, as SUB does.
cp_a_stores_result(c, value) ==
  LET result == (c.a + U8 - value) % U8
      half_carry == BitAnd(c.a, 15) < BitAnd(value, 15)
      c1 == set_flag(c, FLAG_S, BitAnd(result, 128) # 0)
      c2 == set_flag(c1, FLAG_Z, result = 0)
      c3 == set_flag(c2, FLAG_H, half_carry)
      c4 == set_flag(c3, FLAG_PV,
                     BitAnd(BitAnd(BitXor(c.a, value), BitXor(c.a, result)), 128) # 0)
      c5 == set_flag(c4, FLAG_N, TRUE)
      c6 == set_flag(c5, FLAG_C, c.a < value)
      c7 == set_flag(c6, FLAG_Y, BitAnd(result, 32) # 0)
  IN  [set_flag(c7, FLAG_X, BitAnd(result, 8) # 0) EXCEPT !.a = result]

cp_a(c, value) ==
  LET result == (c.a + U8 - value) % U8
      half_carry == BitAnd(c.a, 15) < BitAnd(value, 15)
      c1 == set_flag(c, FLAG_S, BitAnd(result, 128) # 0)
      c2 == set_flag(c1, FLAG_Z, result = 0)
      c3 == set_flag(c2, FLAG_H, half_carry)
      c4 == set_flag(c3, FLAG_PV,
                     BitAnd(BitAnd(BitXor(c.a, value), BitXor(c.a, result)), 128) # 0)
      c5 == set_flag(c4, FLAG_N, TRUE)
      c6 == set_flag(c5, FLAG_C, c.a < value)
      c7 == set_flag(c6, FLAG_Y, BitAnd(result, 32) # 0)
  IN  set_flag(c7, FLAG_X, BitAnd(result, 8) # 0)

(***************************************************************************)
(* Rotates and shifts (cpu/instructions/bit_manipulation.rs,               *)
(* cpu/instructions/undocumented.rs): the rotated value, and the Cpu with  *)
(* the flags set.                                                          *)
(***************************************************************************)
update_rotation_flags(c, result) ==
  LET c1 == set_flag(c, FLAG_S, BitAnd(result, 128) # 0)
      c2 == set_flag(c1, FLAG_Z, result = 0)
      c3 == set_flag(c2, FLAG_H, FALSE)
      c4 == set_flag(c3, FLAG_PV, count_ones(result) % 2 = 0)
  IN  set_flag(c4, FLAG_N, FALSE)

\* u8::rotate_left(1)
rlc(c, value) ==
  LET result == BitOr(Shl8(value, 1), value \div 128)
  IN  [value |-> result,
       cpu |-> set_flag(update_rotation_flags(c, result), FLAG_C, BitAnd(value, 128) # 0)]

\* u8::rotate_right(1)
rrc(c, value) ==
  LET result == BitOr(value \div 2, Shl8(value, 7))
  IN  [value |-> result,
       cpu |-> set_flag(update_rotation_flags(c, result), FLAG_C, BitAnd(value, 1) # 0)]

rl(c, value) ==
  LET carry == BoolInt(get_flag(c, FLAG_C))
      result == BitOr(Shl8(value, 1), carry)
  IN  [value |-> result,
       cpu |-> set_flag(update_rotation_flags(c, result), FLAG_C, BitAnd(value, 128) # 0)]

rr(c, value) ==
  LET carry == BoolInt(get_flag(c, FLAG_C))
      result == BitOr(value \div 2, Shl8(carry, 7))
  IN  [value |-> result,
       cpu |-> set_flag(update_rotation_flags(c, result), FLAG_C, BitAnd(value, 1) # 0)]

sla(c, value) ==
  LET result == Shl8(value, 1)
  IN  [value |-> result,
       cpu |-> set_flag(update_rotation_flags(c, result), FLAG_C, BitAnd(value, 128) # 0)]

sra(c, value) ==
  LET result == BitOr(value \div 2, BitAnd(value, 128))
  IN  [value |-> result,
       cpu |-> set_flag(update_rotation_flags(c, result), FLAG_C, BitAnd(value, 1) # 0)]

srl(c, value) ==
  LET result == value \div 2
  IN  [value |-> result,
       cpu |-> set_flag(update_rotation_flags(c, result), FLAG_C, BitAnd(value, 1) # 0)]

\* Rotates of the accumulator (bit_manipulation.rs): A goes through
\* rlc/rrc/rl/rr, then H and N are cleared.
rlca(c) ==
  LET out == rlc(c, c.a)
      c1 == [out.cpu EXCEPT !.a = out.value]
  IN  set_flag(set_flag(c1, FLAG_H, FALSE), FLAG_N, FALSE)

rrca(c) ==
  LET out == rrc(c, c.a)
      c1 == [out.cpu EXCEPT !.a = out.value]
  IN  set_flag(set_flag(c1, FLAG_H, FALSE), FLAG_N, FALSE)

rla(c) ==
  LET out == rl(c, c.a)
      c1 == [out.cpu EXCEPT !.a = out.value]
  IN  set_flag(set_flag(c1, FLAG_H, FALSE), FLAG_N, FALSE)

rra(c) ==
  LET out == rr(c, c.a)
      c1 == [out.cpu EXCEPT !.a = out.value]
  IN  set_flag(set_flag(c1, FLAG_H, FALSE), FLAG_N, FALSE)

update_flags_logical_shift(c, result) ==
  LET c1 == set_flag(c, FLAG_S, BitAnd(result, 128) # 0)
      c2 == set_flag(c1, FLAG_Z, result = 0)
      c3 == set_flag(c2, FLAG_H, FALSE)
      c4 == set_flag(c3, FLAG_PV, count_ones(result) % 2 = 0)
  IN  set_flag(c4, FLAG_N, FALSE)

sll(c, value) ==
  LET result == BitOr(Shl8(value, 1), 1)
  IN  [value |-> result,
       cpu |-> set_flag(update_flags_logical_shift(c, result), FLAG_C, BitAnd(value, 128) # 0)]

(***************************************************************************)
(* I/O block operations (cpu/instructions/io.rs). Ports are the memory     *)
(* window 0xFF00 | port.                                                   *)
(***************************************************************************)
\* in_r_c(Register::A, port): the Cpu it leaves; the value read is left in A.
in_r_c(c, port) ==
  LET value == core_read_byte(c, BitOr(65280, port))
      c1 == [c EXCEPT !.a = value]
      c2 == set_flag(c1, FLAG_S, BitAnd(value, 128) # 0)
      c3 == set_flag(c2, FLAG_Z, value = 0)
      c4 == set_flag(c3, FLAG_H, FALSE)
      c5 == set_flag(c4, FLAG_PV, count_ones(value) % 2 = 0)
  IN  set_flag(c5, FLAG_N, FALSE)

\* out_c_r(port, Register::B)
out_c_r(c, port) == core_write_byte(c, BitOr(65280, port), c.b)

ini(c) ==
  LET port == c.c
      c1 == in_r_c(c, port)
      value == c1.a
      hl == BitOr((c1.h * U8) % U16, c1.l)
      c2 == core_write_byte(c1, hl, value)
      hl1 == (hl + 1) % U16
      c3 == [c2 EXCEPT !.h = (hl1 \div U8) % U8, !.l = hl1 % U8,
                       !.b = (@ + U8 - 1) % U8]
      c4 == set_flag(c3, FLAG_Z, c3.b = 0)
      c5 == set_flag(c4, FLAG_N, TRUE)
      temp == (value + (hl % U8)) % U8
      c6 == set_flag(c5, FLAG_H, temp < value)
      c7 == set_flag(c6, FLAG_C, temp < value)
  IN  set_flag(c7, FLAG_PV, c3.b # 0)

outi(c) ==
  LET hl == BitOr((c.h * U8) % U16, c.l)
      value == core_read_byte(c, hl)
      c1 == out_c_r(c, c.c)
      hl1 == (hl + 1) % U16
      c2 == [c1 EXCEPT !.h = (hl1 \div U8) % U8, !.l = hl1 % U8,
                       !.b = (@ + U8 - 1) % U8]
      c3 == set_flag(c2, FLAG_Z, c2.b = 0)
      c4 == set_flag(c3, FLAG_N, TRUE)
      l == hl % U8
      c5 == set_flag(c4, FLAG_H, (l + value) % U8 < l)
      c6 == set_flag(c5, FLAG_C, (l + value) % U8 < l)
  IN  set_flag(c6, FLAG_PV, c2.b # 127)

ind(c) ==
  LET port == c.c
      c1 == in_r_c(c, port)
      value == c1.a
      hl == BitOr((c1.h * U8) % U16, c1.l)
      c2 == core_write_byte(c1, hl, value)
      hl1 == (hl + U16 - 1) % U16
      c3 == [c2 EXCEPT !.h = (hl1 \div U8) % U8, !.l = hl1 % U8,
                       !.b = (@ + U8 - 1) % U8]
      c4 == set_flag(c3, FLAG_Z, c3.b = 0)
      c5 == set_flag(c4, FLAG_N, TRUE)
      temp == (value + (hl % U8)) % U8
      c6 == set_flag(c5, FLAG_H, temp < value)
      c7 == set_flag(c6, FLAG_C, temp < value)
  IN  set_flag(c7, FLAG_PV, c3.b # 0)

outd(c) ==
  LET hl == BitOr((c.h * U8) % U16, c.l)
      value == core_read_byte(c, hl)
      c1 == core_write_byte(c, BitOr(65280, c.c), value)
      hl1 == (hl + U16 - 1) % U16
      c2 == [c1 EXCEPT !.h = (hl1 \div U8) % U8, !.l = hl1 % U8,
                       !.b = (@ + U8 - 1) % U8]
      c3 == set_flag(c2, FLAG_Z, c2.b = 0)
      c4 == set_flag(c3, FLAG_N, TRUE)
      l == hl % U8
      c5 == set_flag(c4, FLAG_H, (l + value) % U8 < l)
      c6 == set_flag(c5, FLAG_C, (l + value) % U8 < l)
  IN  set_flag(c6, FLAG_PV, c2.b # 127)

\* The single step a repeating form loops over.
single_step(op, c) ==
  CASE op = "ldir" -> ldi(c)
    [] op = "lddr" -> ldd(c)
    [] op = "cpir" -> cpi(c)
    [] op = "cpdr" -> cpd(c)
    [] op = "inir" -> ini(c)
    [] op = "otir" -> outi(c)
    [] op = "indr" -> ind(c)
    [] op = "otdr" -> outd(c)

\* Faulty variant: cpir and cpdr leave the loop on a match only.
block_loop_end_ignores_count(op, c1) ==
  IF \/ op \in {"ldir", "lddr"} /\ c1.b = 0 /\ c1.c = 0
     \/ op \in {"cpir", "cpdr"} /\ get_flag(c1, FLAG_Z)
  THEN [cpu |-> c1, exits |-> TRUE]
  ELSE [cpu |-> [c1 EXCEPT !.pc = (@ + U16 - 2) % U16], exits |-> FALSE]

\* What follows the single step c1 in the loop of ldir, lddr, cpir or cpdr:
\* the exit test, then pc.wrapping_sub(2) when the loop goes round.
block_loop_end(op, c1) ==
  IF \/ c1.b = 0 /\ c1.c = 0
     \/ op \in {"cpir", "cpdr"} /\ get_flag(c1, FLAG_Z)
  THEN [cpu |-> c1, exits |-> TRUE]
  ELSE [cpu |-> [c1 EXCEPT !.pc = (@ + U16 - 2) % U16], exits |-> FALSE]

\* One pass through the loop of ldir, lddr, cpir or cpdr.
block_iteration(op, c) == block_loop_end(op, single_step(op, c))

\* `while self.b != 0` on entry to inir, otir, indr and otdr.
io_entered(c) == c.b # 0

\* The return of a repeating I/O instruction whose loop was never entered.
io_skipped(op, c) == IF op = "otdr" THEN set_flag(c, FLAG_PV, FALSE) ELSE c

\* What follows the single step c1 in the loop of inir, otir, indr or otdr,
\* up to the test that leaves the loop or goes round, with what follows the
\* loop on leaving: C moves for the input forms, PV is cleared on leaving
\* by all but otir.
io_loop_end(op, c1) ==
  LET moved == CASE op = "inir" -> (c1.c + 1) % U8
                 [] op = "indr" -> (c1.c + U8 - 1) % U8
                 [] OTHER -> c1.c
  IN  IF c1.b # 0
      THEN [cpu |-> [c1 EXCEPT !.c = moved], exits |-> FALSE]
      ELSE [cpu |-> IF op = "otir"
                    THEN c1
                    ELSE set_flag([c1 EXCEPT !.c = moved], FLAG_PV, FALSE),
            exits |-> TRUE]

\* One pass through the loop of inir, otir, indr or otdr.
io_iteration(op, c) == io_loop_end(op, single_step(op, c))

(***************************************************************************)
(* Bounds and inputs.                                                      *)
(***************************************************************************)
MaxSteps == 3
MaxQueue == 3
MaxRunSteps == 65540
MaxFailedSteps == 2
MaxCoreCalls == 2
MaxBlock == 4
MaxFlagCalls == 2
MaxResetCalls == 4
MaxCopySteps == 1024

\* LD A,0x42; LD B,0x10; ADD A,B
FlowProgram == <<62, 66, 6, 16, 128>>

\* (address, program) pairs handed to load_program.
Loads ==
  { <<0, FlowProgram>>, <<0, <<0>> >>, <<0, <<255>> >>, <<0, <<0, 255>> >>,
    <<65535, <<0>> >>, <<65535, <<0, 0>> >> }

DueCycles == {0, 4, 5, 8}

NoCall ==
  [ op |-> "new", before |-> Cpu_new, queue_before |-> << >>, opcode |-> 0,
    pc_executed |-> 0, handled |-> << >>, arg |-> None, result |-> Ok("unit") ]

\* Field values a caller gives the Cpu of cpu/core.rs before using it, as the
\* tests of cpu/interrupts.rs do: PC, SP, I, and the opcode stored at PC.
CorePcs == {4660, 65535}
CoreSps == {8192, 1, 4865}
CoreIs == {18, 255}
CoreOpcodes == {0, 118, 255}
VectorTarget == 17767

CoreNoCall ==
  [ op |-> "new", arg |-> None, ret |-> None, before |-> Core_new,
    prev_op |-> "new", prev_arg |-> None, prev_before |-> Core_new,
    panicked |-> FALSE, calls |-> 0 ]

(***************************************************************************)
(* Operations on the Cpu and on the queue.                                 *)
(***************************************************************************)
Init ==
  /\ decoder = Decoder_new
  /\ dlast = [ op |-> "new", opcode |-> 0, prefix_before |-> "None",
               t_states_before |-> 0, prefix_pending |-> FALSE, result |-> Ok("unit") ]
  /\ fed = [tracked |-> TRUE, calls |-> << >>]
  /\ cpu = Cpu_new
  /\ memory = Memory_new
  /\ event_queue = EventQueue_new
  /\ last = NoCall
  /\ calls = [steps |-> 0, failed |-> 0]
  /\ core = Core_new
  /\ clast = CoreNoCall

\* Cpu::load_program into a memory nothing was loaded into yet.
LoadProgram(address, program) ==
  LET out == load(memory, address, program)
  IN  /\ DOMAIN memory = {}
      /\ memory' = out.memory
      /\ last' = [NoCall EXCEPT !.op = "load_program", !.before = cpu,
                                !.queue_before = event_queue, !.result = out.result]
      /\ UNCHANGED <<cpu, event_queue, calls>>
      /\ DecoderUnchanged

\* event_queue.push(event, t_state)
Push(event, t_state) ==
  /\ Len(event_queue) < MaxQueue
  /\ event_queue' = push(event_queue, event, t_state)
  /\ last' = [NoCall EXCEPT !.op = "push", !.before = cpu, !.queue_before = event_queue,
                            !.arg = Some([event |-> event, t_state |-> t_state])]
  /\ UNCHANGED <<cpu, memory, calls>>
  /\ DecoderUnchanged

\* event_queue.pop()
Pop ==
  LET out == pop(event_queue)
  IN  /\ event_queue' = out.events
      /\ last' = [NoCall EXCEPT !.op = "pop", !.before = cpu, !.queue_before = event_queue,
                                !.result = Ok(out.returned)]
      /\ UNCHANGED <<cpu, memory, calls>>
      /\ DecoderUnchanged

\* cpu.step(), at most max_steps times.
Step(max_steps) ==
  LET out == step(cpu, memory, event_queue)
  IN  /\ calls.steps < max_steps
      /\ cpu' = out.cpu
      /\ event_queue' = out.events
      /\ last' = [ op |-> "step", before |-> cpu, queue_before |-> event_queue,
                   opcode |-> out.opcode, pc_executed |-> out.pc_executed,
                   handled |-> out.handled, arg |-> None, result |-> out.result ]
      /\ calls' = [ steps |-> calls.steps + 1,
                    failed |-> calls.failed + (IF out.result.ok THEN 0 ELSE 1) ]
      /\ UNCHANGED memory
      /\ DecoderUnchanged

Next ==
  \/ \E ld \in Loads : LoadProgram(ld[1], ld[2])
  \/ \E event \in Event, t_state \in DueCycles : Push(event, t_state)
  \/ Step(MaxSteps)

Spec == Init /\ [][Next]_vars

\* The decoder on its own, fed any bytes.
SpecDecoder == Init /\ [][DecoderNext]_vars

\* The queue on its own, under any pushes and pops.
QueueNext ==
  \/ \E event \in Event, t_state \in DueCycles : Push(event, t_state)
  \/ Pop

SpecQueue == Init /\ [][QueueNext]_vars

\* System::load_program of a one-byte program, then tick() after tick():
\* every opcode byte at address 0, and the all-NOP memory run past PC = 0xFFFF.
RunLoad(opcode) == calls.steps = 0 /\ LoadProgram(0, <<opcode>>)

RunStep == calls.failed < MaxFailedSteps /\ Step(MaxRunSteps)

RunNext ==
  \/ \E opcode \in Byte : RunLoad(opcode)
  \/ RunStep

SpecRun == Init /\ [][RunNext]_vars

(***************************************************************************)
(* Operations on the Cpu of cpu/core.rs.                                   *)
(***************************************************************************)
OnlyCoreChanges == UNCHANGED <<decoder, dlast, fed, cpu, memory, event_queue, last, calls>>

\* Direct assignments to the pub fields of a new Cpu, a vector-table entry for
\* mode 2 and one opcode at PC.
CoreSetup(pc, sp, i, iff1, iff2, halted, mode, opcode) ==
  LET c0 == [Core_new EXCEPT !.pc = pc, !.sp = sp, !.i = i, !.iff1 = iff1,
                             !.iff2 = iff2, !.halted = halted]
      c1 == set_interrupt_mode(c0, mode)
      c2 == core_write_word(c1, BitOr((i * U8) % U16, 255), VectorTarget)
  IN  /\ clast.op = "new"
      /\ core' = core_write_byte(c2, pc, opcode)
      /\ clast' = [CoreNoCall EXCEPT !.op = "setup"]
      /\ OnlyCoreChanges

\* One call on the Cpu, with the argument it was given and the value it
\* returned; nothing more is called once a call has panicked.
CoreCallWith(op, arg, ret, out) ==
  /\ ~clast.panicked
  /\ clast.calls < MaxCoreCalls
  /\ core' = out.cpu
  /\ clast' = [ op |-> op, arg |-> arg, ret |-> ret, before |-> core,
                prev_op |-> clast.op, prev_arg |-> clast.arg,
                prev_before |-> clast.before, panicked |-> out.panicked,
                calls |-> clast.calls + 1 ]
  /\ OnlyCoreChanges

CoreCall(op, out) == CoreCallWith(op, None, None, out)

Returns(c) == [cpu |-> c, panicked |-> FALSE]

HandleNmi == CoreCall("handle_nmi", Returns(handle_nmi(core)))

HandleInterrupt == CoreCall("handle_interrupt", core_handle_interrupt(core))

Ei == CoreCall("ei", Returns(ei(core)))

Di == CoreCall("di", Returns(di(core)))

Retn == CoreCall("retn", Returns(retn(core)))

Reti == CoreCall("reti", Returns(reti(core)))

CoreStep == CoreCall("step", core_step(core))

CoreNext ==
  \/ \E pc \in CorePcs, sp \in CoreSps, i \in CoreIs, iff1 \in BOOLEAN, iff2 \in BOOLEAN,
        halted \in BOOLEAN, mode \in InterruptMode, opcode \in CoreOpcodes :
       CoreSetup(pc, sp, i, iff1, iff2, halted, mode, opcode)
  \/ HandleNmi
  \/ HandleInterrupt
  \/ Ei
  \/ Di
  \/ Retn
  \/ Reti
  \/ CoreStep

SpecCore == Init /\ [][CoreNext]_vars

(***************************************************************************)
(* Stack operations on the Cpu of cpu/core.rs (cpu/instructions/load.rs).  *)
(***************************************************************************)
\* 0x1234, 0xFF00, 0x00FF in the pair; SP at both ends of the address space.
StackValues == {4660, 65280, 255}
StackSps == {0, 1, 2, 65535, 32768}

\* A new Cpu with SP and one register pair assigned.
StackSetup(pair, value, sp) ==
  /\ clast.op = "new"
  /\ core' = write_register_pair([Core_new EXCEPT !.sp = sp], pair, value)
  /\ clast' = [CoreNoCall EXCEPT !.op = "setup"]
  /\ OnlyCoreChanges

StackNext ==
  \/ \E pair \in RegisterPair, value \in StackValues, sp \in StackSps :
       StackSetup(pair, value, sp)
  \/ \E pair \in RegisterPair :
       CoreCallWith("push_rr", pair, None, Returns(push_rr(core, pair)))
  \/ \E pair \in RegisterPair :
       CoreCallWith("pop_rr", pair, None, Returns(pop_rr(core, pair)))

SpecStack == Init /\ [][StackNext]_vars

(***************************************************************************)
(* Block operations on the Cpu of cpu/core.rs.                             *)
(***************************************************************************)
\* Values the tests of block_operations.rs give the Cpu, and neighbours of
\* them: a destination one above the source, a source at the top of memory.
BlockPcs == {0, 258}
BlockHls == {4096, 65534}
BlockDes == {8192, 4097}
BlockAs == {66, 16}
BlockData == { <<65, 66, 68, 66, 67>>, <<66, 66, 1, 2, 3>>, <<1, 2, 3, 4, 5>> }

\* set_hl, set_de, set_bc, a and pc assigned, data written upward from HL.
BlockSetup(pc, hl, de, n, a, data) ==
  /\ clast.op = "new"
  /\ core' = [Core_new EXCEPT
                !.pc = pc, !.a = a,
                !.h = (hl \div U8) % U8, !.l = hl % U8,
                !.d = (de \div U8) % U8, !.e = de % U8,
                !.b = (n \div U8) % U8, !.c = n % U8,
                !.memory = [x \in {(hl + k - 1) % U16 : k \in 1 .. Len(data)} |->
                              data[((x + U16 - hl) % U16) + 1]]]
  /\ clast' = [CoreNoCall EXCEPT !.op = "setup"]
  /\ OnlyCoreChanges

\* The repeating forms are called with BC in 1 .. MaxBlock.
BlockCount == read_register_pair(core, "BC") \in 1 .. MaxBlock

BlockNext ==
  \/ \E pc \in BlockPcs, hl \in BlockHls, de \in BlockDes, n \in 1 .. MaxBlock,
        a \in BlockAs, data \in BlockData :
       BlockSetup(pc, hl, de, n, a, data)
  \/ BlockCount /\ CoreCallWith("ldir", None, None, Returns(ldir(core)))
  \/ BlockCount /\ CoreCallWith("lddr", None, None, Returns(lddr(core)))
  \/ BlockCount /\ CoreCallWith("cpir", None, None, Returns(cpir(core)))
  \/ BlockCount /\ CoreCallWith("cpdr", None, None, Returns(cpdr(core)))

SpecBlock == Init /\ [][BlockNext]_vars

(***************************************************************************)
(* Arithmetic and logic on the Cpu of cpu/core.rs: A and F are assigned,   *)
(* then an instruction is applied to them.                                 *)
(***************************************************************************)
AluSetup(a, f) ==
  /\ clast.op = "new"
  /\ core' = [Core_new EXCEPT !.a = a, !.f = f]
  /\ clast' = [CoreNoCall EXCEPT !.op = "setup"]
  /\ OnlyCoreChanges

\* Flag bytes before inc/dec: none set, all set, carry only, all but X, Y, C.
IncDecFlags == {0, 255, 1, 214}

\* The operand of inc/dec: any byte at first, then the value just returned.
IncDecOperands ==
  IF clast.op = "setup" THEN Byte
  ELSE IF clast.op \in {"inc", "dec"} THEN {clast.ret}
  ELSE {}

IncDecNext ==
  \/ \E f \in IncDecFlags : AluSetup(0, f)
  \/ \E v \in IncDecOperands :
       LET out == inc(core, v) IN CoreCallWith("inc", v, out.value, Returns(out.cpu))
  \/ \E v \in IncDecOperands :
       LET out == dec(core, v) IN CoreCallWith("dec", v, out.value, Returns(out.cpu))

SpecIncDec == Init /\ [][IncDecNext]_vars

\* Operands at the nibble and sign boundaries.
ArithOperands == {0, 1, 2, 15, 16, 17, 66, 102, 126, 127, 128, 129, 153, 154, 254, 255}

\* update_arithmetic_flags on a new Cpu of cpu/mod.rs, as test_arithmetic_flags
\* calls it.
UpdateArithmeticFlags(a, b, carry, is_add) ==
  /\ last.op = "new"
  /\ clast.op = "new"
  /\ cpu' = update_arithmetic_flags(cpu, a, b, carry, is_add)
  /\ last' = [NoCall EXCEPT !.op = "update_arithmetic_flags", !.before = cpu,
                            !.arg = [a |-> a, b |-> b, carry |-> carry, is_add |-> is_add]]
  /\ UNCHANGED <<memory, event_queue, calls>>
  /\ DecoderUnchanged

\* add_a/adc_a/sub_a/sbc_a are applied once to the A and F assigned.
ArithNext ==
  \/ last.op = "new" /\ clast.op = "new" /\ \E a \in Byte, f \in {0, 255} : AluSetup(a, f)
  \/ clast.op = "setup"
       /\ \E v \in ArithOperands : CoreCallWith("add_a", v, None, Returns(add_a(core, v)))
  \/ clast.op = "setup"
       /\ \E v \in ArithOperands : CoreCallWith("adc_a", v, None, Returns(adc_a(core, v)))
  \/ clast.op = "setup"
       /\ \E v \in ArithOperands : CoreCallWith("sub_a", v, None, Returns(sub_a(core, v)))
  \/ clast.op = "setup"
       /\ \E v \in ArithOperands : CoreCallWith("sbc_a", v, None, Returns(sbc_a(core, v)))
  \/ last.op = "new" /\ clast.op = "new"
       /\ \E a \in Byte, b \in ArithOperands, carry \in BOOLEAN, is_add \in BOOLEAN :
            UpdateArithmeticFlags(a, b, carry, is_add)

SpecArith == Init /\ [][ArithNext]_vars

\* Flag bytes before daa: every combination of C, N and H, with the other
\* five bits all clear or all set.
DaaFlags ==
  { cf + nf + hf + others : cf \in {0, FLAG_C}, nf \in {0, FLAG_N}, hf \in {0, FLAG_H},
                             others \in {0, 236} }

DaaNext ==
  \/ clast.op = "new" /\ \E a \in Byte, f \in DaaFlags : AluSetup(a, f)
  \/ CoreCallWith("daa", None, None, Returns(daa(core)))

SpecDaa == Init /\ [][DaaNext]_vars

\* Accumulator values for the logic instructions: with 0xFF under AND and
\* with 0x00 under OR and XOR every byte is a result.
LogicAs == {0, 255, 15, 240, 85, 170, 204, 129}

\* Each instruction is applied once to the A and F assigned.
LogicNext ==
  \/ clast.op = "new" /\ \E a \in LogicAs, f \in {0, 255} : AluSetup(a, f)
  \/ clast.op = "setup"
       /\ \E v \in Byte : CoreCallWith("and_a", v, None, Returns(and_a(core, v)))
  \/ clast.op = "setup"
       /\ \E v \in Byte : CoreCallWith("or_a", v, None, Returns(or_a(core, v)))
  \/ clast.op = "setup"
       /\ \E v \in Byte : CoreCallWith("xor_a", v, None, Returns(xor_a(core, v)))
  \/ clast.op = "setup" /\ \E v \in Byte :
       LET out == rlc(core, v) IN CoreCallWith("rlc", v, out.value, Returns(out.cpu))
  \/ clast.op = "setup" /\ \E v \in Byte :
       LET out == rrc(core, v) IN CoreCallWith("rrc", v, out.value, Returns(out.cpu))
  \/ clast.op = "setup" /\ \E v \in Byte :
       LET out == rl(core, v) IN CoreCallWith("rl", v, out.value, Returns(out.cpu))
  \/ clast.op = "setup" /\ \E v \in Byte :
       LET out == rr(core, v) IN CoreCallWith("rr", v, out.value, Returns(out.cpu))
  \/ clast.op = "setup" /\ \E v \in Byte :
       LET out == sla(core, v) IN CoreCallWith("sla", v, out.value, Returns(out.cpu))
  \/ clast.op = "setup" /\ \E v \in Byte :
       LET out == sra(core, v) IN CoreCallWith("sra", v, out.value, Returns(out.cpu))
  \/ clast.op = "setup" /\ \E v \in Byte :
       LET out == srl(core, v) IN CoreCallWith("srl", v, out.value, Returns(out.cpu))
  \/ clast.op = "setup" /\ \E v \in Byte :
       LET out == sll(core, v) IN CoreCallWith("sll", v, out.value, Returns(out.cpu))

SpecLogic == Init /\ [][LogicNext]_vars

\* cp_a is applied once to every A, with every operand.
CompareNext ==
  \/ clast.op = "new" /\ \E a \in Byte, f \in {0, 255} : AluSetup(a, f)
  \/ clast.op = "setup"
       /\ \E v \in Byte : CoreCallWith("cp_a", v, None, Returns(cp_a(core, v)))

SpecCompare == Init /\ [][CompareNext]_vars

\* Flag bytes before a rotate of A: none set, all set, carry only, all but
\* X, Y and C.
RotateFlags == {0, 255, 1, 214}

\* Each rotate is applied once to the A and F assigned.
RotateNext ==
  \/ clast.op = "new" /\ \E a \in Byte, f \in RotateFlags : AluSetup(a, f)
  \/ clast.op = "setup" /\ CoreCallWith("rlca", None, None, Returns(rlca(core)))
  \/ clast.op = "setup" /\ CoreCallWith("rrca", None, None, Returns(rrca(core)))
  \/ clast.op = "setup" /\ CoreCallWith("rla", None, None, Returns(rla(core)))
  \/ clast.op = "setup" /\ CoreCallWith("rra", None, None, Returns(rra(core)))

SpecRotate == Init /\ [][RotateNext]_vars

(***************************************************************************)
(* The flag byte of the Cpu of cpu/mod.rs.                                 *)
(***************************************************************************)
\* cpu.flags.from_byte(byte)
FromByte(byte) ==
  /\ calls.steps < MaxFlagCalls
  /\ cpu' = [cpu EXCEPT !.flags = from_byte(@, byte)]
  /\ last' = [NoCall EXCEPT !.op = "from_byte", !.before = cpu, !.arg = Some(byte)]
  /\ calls' = [calls EXCEPT !.steps = @ + 1]
  /\ UNCHANGED <<memory, event_queue>>
  /\ DecoderUnchanged

\* cpu.flags.to_byte(); arg stays the byte the flags were last loaded from.
ToByte ==
  /\ calls.steps < MaxFlagCalls
  /\ last' = [NoCall EXCEPT !.op = "to_byte", !.before = cpu, !.arg = last.arg,
                            !.result = Ok(to_byte(cpu.flags))]
  /\ calls' = [calls EXCEPT !.steps = @ + 1]
  /\ UNCHANGED <<cpu, memory, event_queue>>
  /\ DecoderUnchanged

FlagsNext ==
  \/ \E byte \in Byte : FromByte(byte)
  \/ ToByte

SpecFlags == Init /\ [][FlagsNext]_vars

\* The refresh register: `Cpu { r, ..Default::default() }` as in
\* test_r_register_increment, then increment_r() and step() under either
\* build profile. A panic ends the run.
AddOverflowPanic == [kind |-> "Panic", arg |-> 0]

Panicked == ~last.result.ok /\ last.result.error.kind = "Panic"

SetR(r) ==
  /\ cpu = Cpu_new
  /\ calls.steps = 0
  /\ cpu' = [cpu EXCEPT !.r = r]
  /\ last' = [NoCall EXCEPT !.op = "setup", !.before = cpu, !.arg = Some(r)]
  /\ UNCHANGED <<memory, event_queue, calls>>
  /\ DecoderUnchanged

IncrementR(overflow_checks) ==
  LET panics == overflow_checks /\ increment_r_overflows(cpu)
  IN  /\ ~Panicked
      /\ calls.steps < MaxSteps
      /\ cpu' = IF panics THEN cpu ELSE increment_r(cpu)
      /\ last' = [NoCall EXCEPT !.op = "increment_r", !.before = cpu,
                                !.result = IF panics THEN Err(AddOverflowPanic)
                                                     ELSE Ok("unit")]
      /\ calls' = [calls EXCEPT !.steps = @ + 1]
      /\ UNCHANGED <<memory, event_queue>>
      /\ DecoderUnchanged

\* cpu.step(); no event is queued in this specification, so a step that
\* panics in increment_r has changed nothing before it.
RefreshStep(overflow_checks) ==
  /\ ~Panicked
  /\ IF overflow_checks /\ increment_r_overflows(cpu)
     THEN /\ calls.steps < MaxSteps
          /\ last' = [NoCall EXCEPT !.op = "step", !.before = cpu,
                                    !.opcode = read_byte(memory, cpu.pc),
                                    !.result = Err(AddOverflowPanic)]
          /\ calls' = [calls EXCEPT !.steps = @ + 1]
          /\ UNCHANGED <<cpu, memory, event_queue>>
          /\ DecoderUnchanged
     ELSE Step(MaxSteps)

RefreshNext ==
  \/ \E r \in Byte : SetR(r)
  \/ \E ld \in Loads : LoadProgram(ld[1], ld[2])
  \/ \E overflow_checks \in BOOLEAN : IncrementR(overflow_checks)
  \/ \E overflow_checks \in BOOLEAN : RefreshStep(overflow_checks)

SpecRefresh == Init /\ [][RefreshNext]_vars

\* The interrupt entry points called in any order on a Cpu fresh from
\* Cpu::new(), with no field assigned directly.
ResetCall(op, out) ==
  /\ ~clast.panicked
  /\ clast.calls < MaxResetCalls
  /\ core' = out.cpu
  /\ clast' = [ op |-> op, arg |-> None, ret |-> None, before |-> core,
                prev_op |-> clast.op, prev_arg |-> clast.arg,
                prev_before |-> clast.before, panicked |-> out.panicked,
                calls |-> clast.calls + 1 ]
  /\ OnlyCoreChanges

FlipFlopNext ==
  \/ ResetCall("ei", Returns(ei(core)))
  \/ ResetCall("di", Returns(di(core)))
  \/ ResetCall("handle_nmi", Returns(handle_nmi(core)))
  \/ ResetCall("handle_interrupt", core_handle_interrupt(core))
  \/ ResetCall("retn", Returns(retn(core)))
  \/ ResetCall("reti", Returns(reti(core)))

SpecFlipFlops == Init /\ [][FlipFlopNext]_vars

\* The single-step I/O block instructions, each called once on a Cpu set up
\* as the tests of io.rs do: B, C, HL assigned, a byte written at HL and
\* another at the port 0xFF00 | C (the byte at HL is written first).
IoCounts == {1, 2, 3, 128, 0}
IoPorts == {16, 255}
IoHls == {4096, 8192, 65535}

IoSetup(b, port, hl, value) ==
  LET c0 == [Core_new EXCEPT !.b = b, !.c = port,
                             !.h = (hl \div U8) % U8, !.l = hl % U8]
      c1 == core_write_byte(c0, hl, value)
  IN  /\ clast.op = "new"
      /\ core' = core_write_byte(c1, BitOr(65280, port), (U8 - 1) - value)
      /\ clast' = [CoreNoCall EXCEPT !.op = "setup"]
      /\ OnlyCoreChanges

IoNext ==
  \/ clast.op = "new" /\ \E b \in IoCounts, port \in IoPorts, hl \in IoHls, value \in Byte :
       IoSetup(b, port, hl, value)
  \/ clast.op = "setup" /\ CoreCall("ini", Returns(ini(core)))
  \/ clast.op = "setup" /\ CoreCall("outi", Returns(outi(core)))
  \/ clast.op = "setup" /\ CoreCall("ind", Returns(ind(core)))
  \/ clast.op = "setup" /\ CoreCall("outd", Returns(outd(core)))

SpecIo == Init /\ [][IoNext]_vars

\* The repeating block instructions followed pass by pass through their
\* loops. clast.op names the instruction called, clast.before the Cpu it was
\* called on, clast.prev_before the Cpu before the latest pass, clast.calls
\* the passes made, and clast.ret is None while control is inside the loop.
BlockRepeats == {"ldir", "lddr", "cpir", "cpdr"}
IoRepeats == {"inir", "otir", "indr", "otdr"}
Returned == Some("returned")

\* BC for the block forms (0 is the longest run), with A matching a byte of
\* the data or none; B for the I/O forms, the ends and the middle of its
\* range, on port 0x10.
RepeatCounts == {0, 1, 3}
RepeatBs == {0, 1, 2, 3, 127, 128, 129, 255}
RepeatAs == {66, 200}
RepeatPort == 16

RepeatCall(op) ==
  LET entered == op \in BlockRepeats \/ io_entered(core)
  IN  /\ clast.op = "setup"
      /\ IF op \in BlockRepeats
         THEN read_register_pair(core, "BC") \in RepeatCounts /\ core.pc # 0
         ELSE core.c = RepeatPort
      /\ core' = IF entered THEN core ELSE io_skipped(op, core)
      /\ clast' = [CoreNoCall EXCEPT !.op = op, !.before = core, !.prev_before = core,
                                     !.ret = IF entered THEN None ELSE Returned]
      /\ OnlyCoreChanges

\* ldir and lddr write a byte per pass: they are followed for MaxCopySteps
\* passes; the other forms are followed to their return.
RepeatIterate ==
  /\ clast.op \in BlockRepeats \cup IoRepeats
  /\ clast.ret = None
  /\ clast.op \in {"ldir", "lddr"} => clast.calls < MaxCopySteps
  /\ \E out \in { IF clast.op \in BlockRepeats THEN block_iteration(clast.op, core)
                                                ELSE io_iteration(clast.op, core) } :
       /\ core' = out.cpu
       /\ clast' = [clast EXCEPT !.prev_before = core, !.calls = @ + 1,
                                 !.ret = IF out.exits THEN Returned ELSE None]
  /\ OnlyCoreChanges

RepeatNext ==
  \/ clast.op = "new" /\ \E n \in RepeatCounts, a \in RepeatAs :
       BlockSetup(258, 4096, 8192, n, a, <<65, 66, 68, 66, 67>>)
  \/ clast.op = "new" /\ \E b \in RepeatBs, value \in {170, 0} :
       IoSetup(b, RepeatPort, 4096, value)
  \/ \E op \in BlockRepeats \cup IoRepeats : RepeatCall(op)
  \/ RepeatIterate

SpecRepeat == Init /\ [][RepeatNext]_vars

(***************************************************************************)
(* Properties.                                                             *)
(***************************************************************************)
ProgramAt(address, program) ==
  \A i \in 1 .. Len(program) : read_byte(memory, address + i - 1) = program[i]

\* C1: from reset with 0x3E,0x42,0x06,0x10,0x80 at address 0, three step()
\* calls all succeed and leave A = 0x52, B = 0x10, PC = 5 and Z clear.
C1_FlowProgramRuns ==
  (ProgramAt(0, FlowProgram) /\ calls.steps = 3)
    => /\ calls.failed = 0
       /\ cpu.a = 82
       /\ cpu.b = 16
       /\ cpu.pc = 5
       /\ ~cpu.flags.zero

\* C2: decoding 0xDD, 0xCB, 0x06 from the initial state moves the prefix
\* None -> Dd -> DdCb, reporting each of the two bytes as a pending prefix, and
\* the third byte resolves to an instruction whose T-states are 4 + 4 + the
\* base cost of the bit operation 0x06.
C2_NestedPrefixResolves ==
  (fed.tracked /\ FedBytes = <<221, 203, 6>>)
    => /\ fed.calls[1].current_prefix = "Dd"
       /\ fed.calls[1].result = Ok(PREFIX_INSTRUCTION)
       /\ fed.calls[2].current_prefix = "DdCb"
       /\ fed.calls[2].result = Ok(PREFIX_INSTRUCTION)
       /\ fed.calls[3].result.ok
       /\ fed.calls[3].result.value.t_states = 4 + 4 + lookup_cb(6)[1].t_states

\* C3: for every prefix state and every opcode byte that is no prefix
\* transition and is absent from the table that prefix state selects, decode
\* returns InvalidOpcode(byte); and step() returns that error for the byte at
\* PC, leaving PC on the byte.
C3_InvalidOpcodePropagates ==
  last.op = "step" =>
    \A p \in Prefix, t \in {0, 4, 8} :
      (~handle_prefix(p, last.opcode).matched /\ decode_lookup(p, last.opcode) = None)
        => /\ decode([current_prefix |-> p, current_prefix_t_states |-> t],
                     last.opcode).result = Err(InvalidOpcode(last.opcode))
           /\ p = "None" => /\ last.result = Err(InvalidOpcode(last.opcode))
                            /\ cpu.pc = last.before.pc

C3_Witness ==
  /\ last.op = "step"
  /\ last.opcode = 255
  /\ last.result = Err(InvalidOpcode(255))
  /\ calls.failed = 2

StripAt(handled) ==
  [i \in 1 .. Len(handled) |-> [event |-> handled[i].event, t_state |-> handled[i].t_state]]

\* C6: step() pops and handles an event only when its due cycle is <= t_states
\* at that moment; after a successful step() no queued event has a due cycle
\* <= t_states; the events it did not handle stay queued, in order.
C6_DueEventsHandled ==
  last.op = "step" =>
    /\ \A i \in 1 .. Len(last.handled) : last.handled[i].t_state <= last.handled[i].at
    /\ last.result.ok =>
         \A j \in 1 .. Len(event_queue) : event_queue[j].t_state > cpu.t_states
    /\ last.queue_before = StripAt(last.handled) \o event_queue

C6_Witness ==
  /\ last.op = "step"
  /\ last.before.t_states = 0
  /\ last.result = Ok(4)
  /\ \E i \in 1 .. Len(last.handled) :
       last.handled[i].t_state = 4 /\ last.handled[i].at = 4
  /\ event_queue /= << >>

Sorted(events) ==
  \A i, j \in 1 .. Len(events) : i < j => events[i].t_state <= events[j].t_state

\* C7: every push and pop leaves the queue sorted ascending by due cycle; push
\* places the event after every queued event due no later than it, keeping the
\* others in order; pop and peek return the head, whose due cycle is the
\* minimum, and pop on an empty queue returns None and leaves it empty.
C7_QueueOrder ==
  [][ /\ Sorted(event_queue')
      /\ last'.op = "push" =>
           LET x == last'.arg[1]
               k == Cardinality({i \in 1 .. Len(event_queue) :
                                   event_queue[i].t_state <= x.t_state})
           IN  event_queue' = SubSeq(event_queue, 1, k) \o << x >>
                                \o SubSeq(event_queue, k + 1, Len(event_queue))
      /\ last'.op = "pop" =>
           IF event_queue = << >>
           THEN last'.result = Ok(None) /\ event_queue' = << >>
           ELSE /\ last'.result = Ok(Some(Head(event_queue)))
                /\ peek(event_queue) = Some(Head(event_queue))
                /\ \A i \in 1 .. Len(event_queue) :
                     Head(event_queue).t_state <= event_queue[i].t_state
                /\ event_queue' = Tail(event_queue)
    ]_vars

C7_Witness ==
  /\ last.op = "pop"
  /\ last.result = Ok(Some([event |-> "Interrupt", t_state |-> 4]))
  /\ Len(last.queue_before) = 3
  /\ Head(event_queue) = [event |-> "Timer", t_state |-> 4]

WithoutInterrupts(events) == SelectSeq(events, LAMBDA e : e.event /= "Interrupt")

\* C8: a step() that drains an Interrupt event does not leave the Cpu as the
\* same step() leaves it without that event: the interrupt is accepted.
C8_InterruptEventAccepted ==
  (last.op = "step" /\ \E i \in 1 .. Len(last.handled) : last.handled[i].event = "Interrupt")
    => cpu /= step(last.before, memory, WithoutInterrupts(last.queue_before)).cpu

PrefixTransitions ==
  { <<"None", 203, "Cb">>, <<"None", 221, "Dd">>, <<"None", 253, "Fd">>,
    <<"None", 237, "Ed">>, <<"Dd", 203, "DdCb">>, <<"Fd", 203, "FdCb">> }

\* C9: a byte changes the prefix state to a non-None value only by one of
\* None-CB->Cb, None-DD->Dd, None-FD->Fd, None-ED->Ed, Dd-CB->DdCb, Fd-CB->FdCb.
C9_PrefixTransitions ==
  [][ (decoder'.current_prefix /= decoder.current_prefix
         /\ decoder'.current_prefix /= "None")
        => <<decoder.current_prefix, dlast'.opcode, decoder'.current_prefix>>
             \in PrefixTransitions
    ]_vars

C9_Witness ==
  /\ decoder.current_prefix = "FdCb"
  /\ dlast.prefix_before = "Fd"
  /\ dlast.opcode = 203

\* C10: after a decode that returns a resolved, non-prefix instruction the
\* prefix state is None and the prefix T-state counter is 0.
C10_ResolvedResetsPrefix ==
  (dlast.op = "decode" /\ dlast.result.ok /\ ~dlast.prefix_pending)
    => /\ decoder.current_prefix = "None"
       /\ decoder.current_prefix_t_states = 0

C10_Witness ==
  /\ dlast.op = "decode"
  /\ dlast.prefix_before = "Cb"
  /\ dlast.t_states_before = 4
  /\ dlast.opcode = 0
  /\ dlast.result.ok
  /\ dlast.result.value.t_states = 12
  /\ decoder = Decoder_new

\* C11: a pending prefix never survives a failed decode: whenever decode
\* returns an error, the prefix state is None once the call has returned.
C11_FailedDecodeResetsPrefix ==
  (dlast.op = "decode" /\ ~dlast.result.ok) => decoder.current_prefix = "None"

\* C12: CB 00 (RLC B) is charged 8 T-states in total, the cost the CB table
\* declares for it: the prefix byte is not charged again on top of the table
\* cost, whether the total is read off the resolved instruction or summed with
\* the T-states of the prefix descriptor.
C12_CbRlcBCostsEight ==
  (dlast.op = "decode" /\ dlast.prefix_before = "Cb" /\ dlast.t_states_before = 4
     /\ dlast.opcode = 0)
    => /\ dlast.result.ok
       /\ \/ dlast.result.value.t_states = lookup_cb(0)[1].t_states
          \/ PREFIX_INSTRUCTION.t_states + dlast.result.value.t_states
               = lookup_cb(0)[1].t_states

SeqRange(seq) == {seq[i] : i \in 1 .. Len(seq)}

IxMnemonics ==
  SeqRange(IX_LOAD_MNEMONICS) \cup UNION {SeqRange(IX_ARITHMETIC_MNEMONICS[i]) : i \in 1 .. 4}

IyMnemonics ==
  SeqRange(IY_LOAD_MNEMONICS) \cup UNION {SeqRange(IY_ARITHMETIC_MNEMONICS[i]) : i \in 1 .. 4}

\* C13: FD 46 resolves to LD B,(IY+d) and DD 46 to LD B,(IX+d); no FD-prefixed
\* sequence resolves to an IX-variant descriptor and no DD-prefixed sequence to
\* an IY-variant one.
C13_IndexVariantFollowsPrefix ==
  (dlast.op = "decode" /\ dlast.result.ok /\ ~dlast.prefix_pending) =>
    /\ (dlast.prefix_before = "Fd" /\ dlast.opcode = 70)
         => dlast.result.value.mnemonic = IY_LOAD_MNEMONICS[1]
    /\ (dlast.prefix_before = "Dd" /\ dlast.opcode = 70)
         => dlast.result.value.mnemonic = IX_LOAD_MNEMONICS[1]
    /\ dlast.prefix_before = "Fd" => dlast.result.value.mnemonic \notin IxMnemonics
    /\ dlast.prefix_before = "Dd" => dlast.result.value.mnemonic \notin IyMnemonics

\* C14: CB followed by any opcode in 0x30..0x37 (SLL) resolves to an
\* instruction instead of failing with InvalidOpcode.
C14_SllDecodes ==
  (dlast.op = "decode" /\ dlast.prefix_before = "Cb" /\ dlast.opcode \in 48 .. 55)
    => dlast.result.ok

\* The return PC an interrupt accepted in state b pushes: past the HALT if halted.
ReturnPc(b) == IF b.halted THEN (b.pc + 1) % 65536 ELSE b.pc

\* The stack of c holds word at its top, low byte first.
Pushed(c, word) ==
  /\ core_read_byte(c, c.sp) = word % 256
  /\ core_read_byte(c, (c.sp + 1) % 65536) = word \div 256

\* C15: handle_nmi() acts whether IFF1 is set or clear: IFF2 takes the old IFF1,
\* IFF1 is cleared, SP drops by 2 modulo 65536, the return PC is stored
\* little-endian at the new SP (old PC + 1 when the Cpu was halted, which it no
\* longer is) and PC is 0x0066.
C15_NmiAlwaysAccepted ==
  clast.op = "handle_nmi" =>
    /\ ~clast.panicked
    /\ core.iff2 = clast.before.iff1
    /\ ~core.iff1
    /\ ~core.halted
    /\ core.sp = (clast.before.sp + 65536 - 2) % 65536
    /\ Pushed(core, ReturnPc(clast.before))
    /\ core.pc = 102

C15_Witness ==
  /\ clast.op = "handle_nmi"
  /\ ~clast.before.iff1
  /\ clast.before.halted
  /\ clast.before.pc = 65535
  /\ clast.before.sp = 1
  /\ core.sp = 65535
  /\ core_read_byte(core, 65535) = 0 /\ core_read_byte(core, 0) = 0
  /\ core.pc = 102

\* C16: handle_interrupt() with IFF1 clear changes nothing, in every interrupt
\* mode: registers, memory, flip-flops and halted are as before the call.
C16_MaskedInterruptIgnored ==
  (clast.op = "handle_interrupt" /\ ~clast.before.iff1)
    => core = clast.before /\ ~clast.panicked

C16_Witness ==
  /\ clast.op = "handle_interrupt"
  /\ ~clast.before.iff1
  /\ clast.before.halted
  /\ clast.before.interrupt_mode = 2
  /\ core.halted
  /\ core.pc = 4660

\* C17: handle_interrupt() with IFF1 set in mode 0 or 1 clears IFF1 and IFF2,
\* drops SP by 2, stores the return PC at the new SP (old PC + 1 if the Cpu was
\* halted, which it no longer is) and sets PC to 0x0038.
C17_Mode01Acceptance ==
  (clast.op = "handle_interrupt" /\ clast.before.iff1
     /\ clast.before.interrupt_mode \in {0, 1})
    => /\ ~clast.panicked
       /\ ~core.iff1 /\ ~core.iff2
       /\ ~core.halted
       /\ core.sp = (clast.before.sp + 65536 - 2) % 65536
       /\ Pushed(core, ReturnPc(clast.before))
       /\ core.pc = 56

C17_Witness ==
  /\ clast.op = "handle_interrupt"
  /\ clast.before.iff1
  /\ clast.before.interrupt_mode = 1
  /\ clast.before.halted
  /\ clast.before.pc = 4660
  /\ core_read_word(core, core.sp) = 4661
  /\ core.pc = 56

\* C18: in mode 2 an accepted interrupt reads the little-endian jump target at
\* (I << 8) | 0xFF from memory as it was before the push, then pushes the
\* return PC and jumps to the target; IFF1 and IFF2 end clear.
C18_Mode2Acceptance ==
  (clast.op = "handle_interrupt" /\ clast.before.iff1
     /\ clast.before.interrupt_mode = 2)
    => LET address == clast.before.i * 256 + 255
           target == core_read_byte(clast.before, address)
                       + 256 * core_read_byte(clast.before, (address + 1) % 65536)
       IN  /\ ~clast.panicked
           /\ ~core.iff1 /\ ~core.iff2
           /\ core.sp = (clast.before.sp + 65536 - 2) % 65536
           /\ Pushed(core, ReturnPc(clast.before))
           /\ core.pc = target

\* The push lands on the vector-table entry itself.
C18_Witness ==
  /\ clast.op = "handle_interrupt"
  /\ clast.before.iff1
  /\ clast.before.interrupt_mode = 2
  /\ clast.before.i = 18
  /\ clast.before.sp = 4865
  /\ core.sp = 4863
  /\ core.pc = VectorTarget
  /\ core_read_word(core, 4863) = 4660

\* C19: after step() executed a HALT stored at p, an NMI or an accepted
\* maskable interrupt pushes the return address p + 1.
C19_HaltResumesAfterHalt ==
  ( /\ clast.op \in {"handle_nmi", "handle_interrupt"}
    /\ clast.prev_op = "step"
    /\ ~clast.prev_before.halted
    /\ core_read_byte(clast.prev_before, clast.prev_before.pc) = 118
    /\ clast.op = "handle_interrupt" => clast.before.iff1 )
    => core_read_word(core, core.sp) = (clast.prev_before.pc + 1) % 65536

\* C20: retn() copies IFF2 into IFF1 and reti() sets both, each popping PC and
\* adding 2 to SP; handle_nmi() then retn() on a Cpu that was not halted gives
\* back the IFF1, PC and SP from before the NMI.
C20_ReturnFromInterrupt ==
  /\ clast.op = "retn" =>
       /\ core.iff1 = clast.before.iff2 /\ core.iff2 = clast.before.iff2
       /\ Pushed(clast.before, core.pc)
       /\ core.sp = (clast.before.sp + 2) % 65536
  /\ clast.op = "reti" =>
       /\ core.iff1 /\ core.iff2
       /\ Pushed(clast.before, core.pc)
       /\ core.sp = (clast.before.sp + 2) % 65536
  /\ (clast.op = "retn" /\ clast.prev_op = "handle_nmi" /\ ~clast.prev_before.halted) =>
       /\ core.iff1 = clast.prev_before.iff1
       /\ core.pc = clast.prev_before.pc
       /\ core.sp = clast.prev_before.sp

C20_Witness ==
  /\ clast.op = "retn"
  /\ clast.prev_op = "handle_nmi"
  /\ ~clast.prev_before.halted
  /\ clast.prev_before.iff1 /\ ~clast.prev_before.iff2
  /\ clast.prev_before.sp = 1
  /\ core.iff1
  /\ core.pc = 4660
  /\ core.sp = 1

\* C21: push_rr followed by pop_rr of the same pair (BC, DE, HL, AF, IX, IY)
\* leaves the pair holding the value it had before the push and SP where it
\* was before the push, also when the two stack bytes straddle 0xFFFF/0x0000.
C21_PushPopRestores ==
  ( /\ clast.op = "pop_rr"
    /\ clast.prev_op = "push_rr"
    /\ clast.arg = clast.prev_arg
    /\ clast.arg \in {"BC", "DE", "HL", "AF", "IX", "IY"} )
  => /\ read_register_pair(core, clast.arg)
          = read_register_pair(clast.prev_before, clast.arg)
     /\ core.sp = clast.prev_before.sp

\* HL = 0x1234 pushed with SP = 1 (bytes at 0xFFFF and 0x0000) and popped.
C21_Witness ==
  /\ clast.op = "pop_rr"
  /\ clast.prev_op = "push_rr"
  /\ clast.arg = "HL"
  /\ clast.prev_arg = "HL"
  /\ clast.prev_before.sp = 1
  /\ clast.before.sp = 65535
  /\ core_read_byte(core, 65535) = 52
  /\ core_read_byte(core, 0) = 18
  /\ read_register_pair(core, "HL") = 4660
  /\ core.sp = 1

\* memory after n sequential copies memory[de + k] := memory[hl + k],
\* k = 0 .. n - 1, addresses modulo 65536.
RECURSIVE CopiedUp(_, _, _, _)
CopiedUp(c, hl, de, n) ==
  IF n = 0 THEN c.memory
  ELSE CopiedUp(core_write_byte(c, de, core_read_byte(c, hl)),
                (hl + 1) % U16, (de + 1) % U16, n - 1)

\* C22: ldir() started with BC = n >= 1 copies exactly n bytes in ascending
\* order, ends with BC = 0 and PV clear, HL and DE advanced by n, and writes
\* nothing but the n destination bytes.
C22_LdirCopiesCount ==
  clast.op = "ldir" =>
    LET b == clast.before
        n == read_register_pair(b, "BC")
        hl == read_register_pair(b, "HL")
        de == read_register_pair(b, "DE")
    IN  /\ core.memory = CopiedUp(b, hl, de, n)
        /\ read_register_pair(core, "BC") = 0
        /\ ~get_flag(core, FLAG_PV)
        /\ read_register_pair(core, "HL") = (hl + n) % U16
        /\ read_register_pair(core, "DE") = (de + n) % U16

\* Three bytes 0x41, 0x42, 0x44 copied from 0x1000 to 0x2000, as in test_ldir.
C22_Witness ==
  /\ clast.op = "ldir"
  /\ read_register_pair(clast.before, "BC") = 3
  /\ read_register_pair(clast.before, "HL") = 4096
  /\ read_register_pair(clast.before, "DE") = 8192
  /\ DOMAIN core.memory \ DOMAIN clast.before.memory = {8192, 8193, 8194}
  /\ core_read_byte(core, 8192) = 65
  /\ core_read_byte(core, 8193) = 66
  /\ core_read_byte(core, 8194) = 68
  /\ core_read_byte(core, 8195) = 0

\* C23: ldir, lddr, cpir and cpdr leave PC exactly as it was before the call,
\* however many iterations they run.
C23_BlockKeepsPc ==
  clast.op \in {"ldir", "lddr", "cpir", "cpdr"} => core.pc = clast.before.pc

\* The offsets k < n at which memory[hl + k] equals A.
Matches(c, hl, n) ==
  { k \in 0 .. n - 1 : core_read_byte(c, (hl + k) % U16) = c.a }

SetMin(S) == CHOOSE k \in S : \A j \in S : k <= j

\* C24: cpir() stops at the first byte equal to A or when BC reaches 0: on a
\* match Z is set, HL is one past the match, BC is down by one per byte
\* examined and PV is set iff BC is nonzero; without a match every byte is
\* examined; A and memory are never modified.
C24_CpirStopsAtFirstMatch ==
  clast.op = "cpir" =>
    LET b == clast.before
        n == read_register_pair(b, "BC")
        hl == read_register_pair(b, "HL")
        found == Matches(b, hl, n)
        examined == IF found = {} THEN n ELSE SetMin(found) + 1
    IN  /\ get_flag(core, FLAG_Z) = (found # {})
        /\ read_register_pair(core, "HL") = (hl + examined) % U16
        /\ read_register_pair(core, "BC") = n - examined
        /\ get_flag(core, FLAG_PV) = (n - examined # 0)
        /\ core.a = b.a
        /\ core.memory = b.memory

\* The run of test_cpir extended by one byte: A = 0x42 is found at offset 1
\* of four bytes, and the second 0x42 at offset 3 is not reached.
C24_Witness ==
  /\ clast.op = "cpir"
  /\ clast.before.a = 66
  /\ read_register_pair(clast.before, "BC") = 4
  /\ read_register_pair(clast.before, "HL") = 4096
  /\ Matches(clast.before, 4096, 4) = {1, 3}
  /\ read_register_pair(core, "HL") = 4098
  /\ read_register_pair(core, "BC") = 2
  /\ get_flag(core, FLAG_Z)
  /\ get_flag(core, FLAG_PV)

\* The flag bits of f named in flags, as a set.
FlagsOf(c, flags) == { x \in flags : get_flag(c, x) }

\* C25: dec(inc(v)) = v and inc(dec(v)) = v for all 256 values; inc sets S to
\* bit 7 of the result, Z iff the result is 0, H iff the low nibble of v was
\* 0xF, PV iff v = 0x7F, and clears N; dec sets H iff the low nibble of v was
\* 0, PV iff v = 0x80, and sets N; neither changes the carry flag.
C25_IncDecInverse ==
  /\ (clast.op = "dec" /\ clast.prev_op = "inc") => clast.ret = clast.prev_arg
  /\ (clast.op = "inc" /\ clast.prev_op = "dec") => clast.ret = clast.prev_arg
  /\ clast.op = "inc" =>
       /\ clast.ret = (clast.arg + 1) % 256
       /\ get_flag(core, FLAG_S) = (clast.ret >= 128)
       /\ get_flag(core, FLAG_Z) = (clast.ret = 0)
       /\ get_flag(core, FLAG_H) = (clast.arg % 16 = 15)
       /\ get_flag(core, FLAG_PV) = (clast.arg = 127)
       /\ ~get_flag(core, FLAG_N)
       /\ get_flag(core, FLAG_C) = get_flag(clast.before, FLAG_C)
  /\ clast.op = "dec" =>
       /\ clast.ret = (clast.arg + 255) % 256
       /\ get_flag(core, FLAG_H) = (clast.arg % 16 = 0)
       /\ get_flag(core, FLAG_PV) = (clast.arg = 128)
       /\ get_flag(core, FLAG_N)
       /\ get_flag(core, FLAG_C) = get_flag(clast.before, FLAG_C)

\* INC 0x7F gave 0x80 with S, H, PV set and Z, N clear, carry still set from
\* before, and DEC of the 0x80 gave 0x7F back.
C25_Witness ==
  /\ clast.op = "dec"
  /\ clast.prev_op = "inc"
  /\ clast.prev_arg = 127
  /\ clast.prev_before.f = 1
  /\ clast.arg = 128
  /\ FlagsOf(clast.before, {FLAG_S, FLAG_Z, FLAG_H, FLAG_PV, FLAG_N, FLAG_C})
       = {FLAG_S, FLAG_H, FLAG_PV, FLAG_C}
  /\ clast.ret = 127

\* a + b + c overflows the signed 8-bit range: a and b have the same sign bit
\* and the 8-bit sum has the other one.
SignedOverflow(a, b, c) ==
  LET sum == (a + b + c) % 256
  IN  ((a >= 128) = (b >= 128)) /\ ((sum >= 128) # (a >= 128))

\* The carry-in of the last add_a/adc_a/sub_a/sbc_a call.
CarryIn ==
  IF clast.op \in {"adc_a", "sbc_a"} /\ get_flag(clast.before, FLAG_C) THEN 1 ELSE 0

\* C26: for all a, b and carry-in c, the add flag computation (update_flags_add
\* in add_a/adc_a, update_arithmetic_flags with is_add = true) sets PV exactly
\* when a and b have the same sign bit and the 8-bit result the opposite one.
C26_AddOverflow ==
  /\ clast.op \in {"add_a", "adc_a"} =>
       get_flag(core, FLAG_PV) = SignedOverflow(clast.before.a, clast.arg, CarryIn)
  /\ (last.op = "update_arithmetic_flags" /\ last.arg.is_add) =>
       cpu.flags.parity
         = SignedOverflow(last.arg.a, last.arg.b, IF last.arg.carry THEN 1 ELSE 0)

\* C27: for all a, b and borrow-in c, the subtract flag computation sets H
\* exactly when (a & 0x0F) < (b & 0x0F) + c, both in update_flags_sub
\* (sub_a/sbc_a) and in update_arithmetic_flags with is_add = false.
C27_SubHalfBorrow ==
  /\ clast.op \in {"sub_a", "sbc_a"} =>
       get_flag(core, FLAG_H) = (clast.before.a % 16 < (clast.arg % 16) + CarryIn)
  /\ (last.op = "update_arithmetic_flags" /\ ~last.arg.is_add) =>
       cpu.flags.half_carry
         = (last.arg.a % 16 < (last.arg.b % 16) + (IF last.arg.carry THEN 1 ELSE 0))

\* C28: for every A and every C, H, N on entry, daa() leaves H clear and C set
\* exactly when the 0x60 correction was applied (C set on entry or A > 0x99),
\* and it adds the correction when N = 0 and subtracts it when N = 1.
C28_DaaCorrection ==
  clast.op = "daa" =>
    LET b == clast.before
        high == IF get_flag(b, FLAG_C) \/ b.a > 153 THEN 96 ELSE 0
    IN  /\ ~get_flag(core, FLAG_H)
        /\ get_flag(core, FLAG_C) = (high = 96)
        /\ \E low \in {0, 6} :
             core.a = IF get_flag(b, FLAG_N) THEN (b.a + 256 - (high + low)) % 256
                                             ELSE (b.a + high + low) % 256

\* A = 0x9A with N = H = C = 0 became A = 0x00 with C = 1.
C28_Witness ==
  /\ clast.op = "daa"
  /\ clast.before.a = 154
  /\ clast.before.f = 0
  /\ core.a = 0
  /\ get_flag(core, FLAG_C)
  /\ ~get_flag(core, FLAG_H)

\* The positions of the 1 bits of a byte.
Bits(x) == { k \in 0 .. 7 : (x \div (2 ^ k)) % 2 = 1 }

EvenParity(x) == Cardinality(Bits(x)) % 2 = 0

\* C29: and_a/or_a/xor_a set PV exactly when the 8-bit result has an even
\* number of 1 bits, force H = 1 for AND and H = 0 for OR/XOR, and clear N and
\* C; rlc, rrc, rl, rr, sla, sra, srl and sll set PV to the even parity of
\* their result.
C29_ParityOfResult ==
  /\ clast.op \in {"and_a", "or_a", "xor_a"} =>
       /\ Bits(core.a) = CASE clast.op = "and_a" -> Bits(clast.before.a) \cap Bits(clast.arg)
                           [] clast.op = "or_a" -> Bits(clast.before.a) \cup Bits(clast.arg)
                           [] clast.op = "xor_a" ->
                                (Bits(clast.before.a) \cup Bits(clast.arg))
                                  \ (Bits(clast.before.a) \cap Bits(clast.arg))
       /\ get_flag(core, FLAG_PV) = EvenParity(core.a)
       /\ get_flag(core, FLAG_H) = (clast.op = "and_a")
       /\ ~get_flag(core, FLAG_N)
       /\ ~get_flag(core, FLAG_C)
  /\ clast.op \in {"rlc", "rrc", "rl", "rr", "sla", "sra", "srl", "sll"} =>
       get_flag(core, FLAG_PV) = EvenParity(clast.ret)

\* 0xCC AND 0xAA = 0x88 from a flag byte with every flag set: PV and H stay
\* set, N and C are cleared.
C29_Witness ==
  /\ clast.op = "and_a"
  /\ clast.before.a = 204
  /\ clast.before.f = 255
  /\ clast.arg = 170
  /\ core.a = 136
  /\ FlagsOf(core, {FLAG_PV, FLAG_H, FLAG_N, FLAG_C}) = {FLAG_PV, FLAG_H}

\* C30: cp_a(v) leaves A, every other register and memory unchanged and
\* produces the flag byte that sub_a(v) produces from the same state.
C30_CompareIsSubtractFlags ==
  clast.op = "cp_a" =>
    core = [clast.before EXCEPT !.f = sub_a(clast.before, clast.arg).f]

\* A = 0x40 compared with 0x41: A is still 0x40, and S, N and C are set as by
\* the subtraction, whose result 0xFF is not stored.
C30_Witness ==
  /\ clast.op = "cp_a"
  /\ clast.before.a = 64
  /\ clast.before.f = 0
  /\ clast.arg = 65
  /\ core.a = 64
  /\ sub_a(clast.before, 65).a = 255
  /\ FlagsOf(core, {FLAG_S, FLAG_Z, FLAG_N, FLAG_C}) = {FLAG_S, FLAG_N, FLAG_C}

\* C31: rlca, rrca, rla and rra leave S, Z and PV (and every flag bit other
\* than H, N, C) as they were, clear H and N, and set C to the bit rotated
\* out of A.
C31_AccumulatorRotateFlags ==
  clast.op \in {"rlca", "rrca", "rla", "rra"} =>
    LET kept == {FLAG_S, FLAG_Z, FLAG_PV, FLAG_Y, FLAG_X}
    IN  /\ FlagsOf(core, kept) = FlagsOf(clast.before, kept)
        /\ ~get_flag(core, FLAG_H)
        /\ ~get_flag(core, FLAG_N)
        /\ get_flag(core, FLAG_C)
             = IF clast.op \in {"rlca", "rla"} THEN clast.before.a >= 128
                                               ELSE clast.before.a % 2 = 1

\* C32: the flag byte and the Flags fields are inverse representations:
\* from_byte(b) followed by to_byte() returns b for every byte b, bits 0x20
\* and 0x08 included, and to_byte() followed by from_byte returns the same
\* fields.
C32_FlagByteRoundTrip ==
  /\ (last.op = "to_byte" /\ last.arg # None) => last.result.value = last.arg[1]
  /\ (last.op = "from_byte" /\ last.arg = Some(to_byte(last.before.flags)))
       => cpu.flags = last.before.flags

\* C33: for every 8-bit R, increment_r completes without arithmetic overflow
\* and leaves (R & 0x80) | ((R + 1) & 0x7F) in R, and every opcode fetch of
\* step() applies exactly one such increment.
C33_RefreshIncrement ==
  last.op \in {"increment_r", "step"} =>
    /\ last.result # Err(AddOverflowPanic)
    /\ cpu.r = BitOr(BitAnd(last.before.r, 128), BitAnd(last.before.r + 1, 127))

\* The inserts that built the table decode consults under a prefix.
PrefixInserts(current_prefix) ==
  CASE current_prefix = "None" -> init_main_table
    [] current_prefix = "Cb" -> init_cb_table
    [] current_prefix = "Ed" -> init_ed_table
    [] current_prefix \in {"Dd", "Fd"} -> init_ddfd_table
    [] OTHER -> << >>

\* C34: table construction never inserts two different instructions under one
\* key of one table: whatever prefix the decoder holds, every descriptor
\* inserted into the table that prefix selects, the 16 IX and 16 IY 16-bit
\* arithmetic forms of the DD/FD table among them, is what a lookup of its
\* key returns.
C34_NoInsertOverwritten ==
  LET inserts == PrefixInserts(decoder.current_prefix)
  IN  \A i \in 1 .. Len(inserts) :
        decode_lookup(decoder.current_prefix, inserts[i][1]) = Some(inserts[i][2])

\* C35: in every state reached from Cpu::new() by ei, di, handle_nmi,
\* handle_interrupt, retn and reti calls, IFF1 set implies IFF2 set.
C35_Iff1ImpliesIff2 == core.iff1 => core.iff2

\* retn after an NMI that interrupted enabled code: IFF2 was set with IFF1
\* clear, and IFF1 is set again.
C35_Witness ==
  /\ clast.op = "retn"
  /\ clast.before.iff2 /\ ~clast.before.iff1
  /\ clast.prev_op = "handle_nmi"
  /\ core.iff1 /\ core.iff2

HaltedMasked(c) == c.halted /\ ~c.iff1

\* C36: while the Cpu is halted with IFF1 clear, step() and handle_interrupt()
\* return without panicking and leave halted set and PC, SP, every register,
\* the flip-flops and memory as they were; of all calls made in that state
\* only handle_nmi() clears halted, and it does.
C36_HaltedStaysHalted ==
  HaltedMasked(clast.before) =>
    /\ clast.op \in {"step", "handle_interrupt"} => (core = clast.before /\ ~clast.panicked)
    /\ ~core.halted <=> clast.op = "handle_nmi"

\* step() after handle_interrupt(), both on the halted Cpu with IFF1 clear.
C36_Witness ==
  /\ clast.op = "step" /\ clast.prev_op = "handle_interrupt"
  /\ HaltedMasked(clast.prev_before) /\ HaltedMasked(clast.before) /\ HaltedMasked(core)

\* C37: when step() fails with InvalidOpcode, PC, SP, the T-state counter,
\* the general registers and the flags are as they were before the call (of
\* the whole Cpu only the refresh register R has moved), and another step()
\* returns the same error.
C37_FailedStepChangesNothing ==
  (last.op = "step" /\ ~last.result.ok /\ last.result.error = InvalidOpcode(last.opcode)) =>
    /\ [cpu EXCEPT !.r = last.before.r] = last.before
    /\ step(cpu, memory, event_queue).result = last.result

\* A second failed step() on the byte 0xFF, with an event drained on the way.
C37_Witness ==
  /\ last.op = "step" /\ last.result = Err(InvalidOpcode(255))
  /\ calls.failed = 2
  /\ last.handled # << >>
  /\ cpu.r = 2 /\ cpu.pc = 0 /\ cpu.t_states = 0

get_hl(c) == BitOr((c.h * U8) % U16, c.l)

\* C38: outi() writes the byte read from memory[HL] to the port 0xFF00 | C,
\* then increments HL and decrements B; it outputs the value outd() outputs
\* for the same HL, C and memory.
C38_OutiWritesMemoryByte ==
  clast.op = "outi" =>
    LET before == clast.before
        port == BitOr(65280, before.c)
    IN  /\ core_read_byte(core, port) = core_read_byte(before, get_hl(before))
        /\ core_read_byte(core, port) = core_read_byte(outd(before), port)
        /\ get_hl(core) = (get_hl(before) + 1) % U16
        /\ core.b = (before.b + U8 - 1) % U8

\* C39: for every initial B in 1 .. 255, each of inir, indr, otir and otdr
\* makes exactly B single-step transfers and returns with B = 0, Z set, N set
\* and PV clear.
C39_IoRepeatFinalState ==
  (clast.op \in IoRepeats /\ clast.ret = Returned /\ clast.before.b \in 1 .. 255) =>
    /\ clast.calls = clast.before.b
    /\ core.b = 0
    /\ get_flag(core, FLAG_Z)
    /\ get_flag(core, FLAG_N)
    /\ ~get_flag(core, FLAG_PV)

\* The loop counter and its width: BC for the block forms, B for the I/O forms.
Counter(op, c) == IF op \in BlockRepeats THEN read_register_pair(c, "BC") ELSE c.b
Width(op) == IF op \in BlockRepeats THEN U16 ELSE U8

\* C40: every repeating block instruction terminates: each pass of the loop
\* moves the counter (BC, or B for the I/O forms) down by one modulo its
\* width, the loop goes round only while the counter is not zero, and so at
\* most 65536 (I/O forms: 256) single steps are made, a counter that starts
\* at 0 included.
C40_RepeatTerminates ==
  clast.op \in BlockRepeats \cup IoRepeats =>
    LET op == clast.op
    IN  /\ clast.calls <= Width(op)
        /\ Counter(op, core) = (Counter(op, clast.before) + Width(op) * 2 - clast.calls) % Width(op)
        /\ clast.calls > 0 =>
             Counter(op, core) = (Counter(op, clast.prev_before) + Width(op) - 1) % Width(op)
        /\ (clast.ret = None /\ clast.calls > 0) => Counter(op, core) # 0

\* cpir called with BC = 0 and no matching byte anywhere returns after
\* 65536 single steps.
C40_Witness ==
  /\ clast.op = "cpir" /\ clast.ret = Returned
  /\ read_register_pair(clast.before, "BC") = 0
  /\ clast.calls = U16
  /\ ~get_flag(core, FLAG_Z)

====
